---- MODULE Spec2Model ----
(***************************************************************************)
(* DynamicProxy (cavoq/DynamicProxy): the exception matcher of             *)
(* internal/config/config.go and the request routing and tunnelling engine *)
(* of internal/proxy/proxy.go.                                             *)
(*                                                                         *)
(* A Go string is modelled as a sequence of one-character strings, so that *)
(* trimming, splitting, quoting and matching are computed character by     *)
(* character as the code computes them.                                    *)
(***************************************************************************)
EXTENDS Integers, Sequences, FiniteSets, TLC

(***************************************************************************)
(* Characters and the string functions of the Go standard library that the *)
(* matcher calls.                                                          *)
(***************************************************************************)

\* unicode.IsSpace restricted to the characters of the model.
IsSpace(c) == c \in {" ", "\t", "\n", "\r"}

\* Simple case folding (strings.EqualFold, regexp (?i)) on the model's letters.
ToLower(c) ==
    CASE c = "A" -> "a"
      [] c = "B" -> "b"
      [] c = "C" -> "c"
      [] c = "L" -> "l"
      [] c = "M" -> "m"
      [] c = "N" -> "n"
      [] c = "T" -> "t"
      [] OTHER -> c

Fold(s) == [i \in 1..Len(s) |-> ToLower(s[i])]

EqualFold(s, t) == Fold(s) = Fold(t)

RECURSIVE TrimLeft(_)
TrimLeft(s) ==
    IF s # <<>> /\ IsSpace(Head(s)) THEN TrimLeft(Tail(s)) ELSE s

RECURSIVE TrimRight(_)
TrimRight(s) ==
    IF s # <<>> /\ IsSpace(s[Len(s)]) THEN TrimRight(SubSeq(s, 1, Len(s) - 1)) ELSE s

TrimSpace(s) == TrimRight(TrimLeft(s))

HasPrefix(s, p) == Len(s) >= Len(p) /\ SubSeq(s, 1, Len(p)) = p

HasSuffix(s, p) == Len(s) >= Len(p) /\ SubSeq(s, Len(s) - Len(p) + 1, Len(s)) = p

TrimSuffix(s, p) == IF HasSuffix(s, p) THEN SubSeq(s, 1, Len(s) - Len(p)) ELSE s

ContainsChar(s, c) == \E i \in 1..Len(s) : s[i] = c

\* Position (1-based) of the first / last occurrence of c in s, 0 when absent.
IndexByte(s, c) ==
    IF ContainsChar(s, c) THEN CHOOSE i \in 1..Len(s) : s[i] = c /\ \A j \in 1..(i - 1) : s[j] # c
    ELSE 0

LastIndexByte(s, c) ==
    IF ContainsChar(s, c) THEN CHOOSE i \in 1..Len(s) : s[i] = c /\ \A j \in (i + 1)..Len(s) : s[j] # c
    ELSE 0

\* net.SplitHostPort: [ok, host].  The port starts after the last colon; a
\* host that starts with '[' must close with the ']' right before that colon;
\* an unbracketed host has no other colon; no further bracket anywhere.
SplitHostPort(hostport) ==
    LET n    == Len(hostport)
        i    == LastIndexByte(hostport, ":")
        fail == [ok |-> FALSE, host |-> <<>>]
    IN  IF i = 0 THEN fail
        ELSE IF hostport[1] = "["
        THEN LET end == IndexByte(hostport, "]")
             IN  IF end = 0 THEN fail
                 ELSE IF end = n THEN fail
                 ELSE IF end + 1 # i THEN fail
                 ELSE IF ContainsChar(SubSeq(hostport, 2, n), "[") THEN fail
                 ELSE IF ContainsChar(SubSeq(hostport, end + 1, n), "]") THEN fail
                 ELSE [ok |-> TRUE, host |-> SubSeq(hostport, 2, end - 1)]
        ELSE LET h == SubSeq(hostport, 1, i - 1)
             IN  IF ContainsChar(h, ":") THEN fail
                 ELSE IF ContainsChar(hostport, "[") THEN fail
                 ELSE IF ContainsChar(hostport, "]") THEN fail
                 ELSE [ok |-> TRUE, host |-> h]

\* The characters regexp.QuoteMeta escapes.
RegexSpecial == {"\\", ".", "+", "*", "?", "(", ")", "|", "[", "]", "{", "}", "^", "$"}

RECURSIVE QuoteMeta(_)
QuoteMeta(s) ==
    IF s = <<>> THEN <<>>
    ELSE IF Head(s) \in RegexSpecial THEN <<"\\", Head(s)>> \o QuoteMeta(Tail(s))
    ELSE <<Head(s)>> \o QuoteMeta(Tail(s))

\* strings.ReplaceAll: non-overlapping occurrences of old, left to right.
RECURSIVE ReplaceAll(_, _, _)
ReplaceAll(s, old, new) ==
    IF s = <<>> THEN <<>>
    ELSE IF HasPrefix(s, old) THEN new \o ReplaceAll(SubSeq(s, Len(old) + 1, Len(s)), old, new)
    ELSE <<Head(s)>> \o ReplaceAll(Tail(s), old, new)

(***************************************************************************)
(* regexp.MatchString on the syntax the matcher can hand it: the flag      *)
(* group (?i), the anchors ^ and $, escaped literals, plain literals, the  *)
(* dot and the star.  Any other operator is outside that syntax and is     *)
(* reported as a compile error.                                            *)
(***************************************************************************)
RegexFlagI == <<"(", "?", "i", ")">>

\* The byte 0xFF, which is no valid UTF-8: QuoteMeta and the string functions
\* pass it on, regexp's parser rejects the expression (ErrInvalidUTF8).
InvalidByte == "<FF>"

\* One atom per element: kind is "lit", "any", "bol" or "eol"; star marks x*.
RECURSIVE RegexParse(_, _)
RegexParse(re, acc) ==
    IF re = <<>> THEN [ok |-> TRUE, atoms |-> acc]
    ELSE LET c == Head(re) IN
         IF c = InvalidByte THEN [ok |-> FALSE, atoms |-> <<>>]
         ELSE IF c = "\\"
         THEN IF Len(re) < 2 \/ re[2] = InvalidByte THEN [ok |-> FALSE, atoms |-> <<>>]
              ELSE RegexParse(SubSeq(re, 3, Len(re)),
                              Append(acc, [kind |-> "lit", ch |-> re[2], star |-> FALSE]))
         ELSE IF c = "*"
         THEN IF acc = <<>> \/ acc[Len(acc)].star \/ acc[Len(acc)].kind \in {"bol", "eol"}
              THEN [ok |-> FALSE, atoms |-> <<>>]
              ELSE RegexParse(Tail(re),
                              [acc EXCEPT ![Len(acc)] = [@ EXCEPT !.star = TRUE]])
         ELSE IF c = "."
         THEN RegexParse(Tail(re), Append(acc, [kind |-> "any", ch |-> c, star |-> FALSE]))
         ELSE IF c = "^"
         THEN RegexParse(Tail(re), Append(acc, [kind |-> "bol", ch |-> c, star |-> FALSE]))
         ELSE IF c = "$"
         THEN RegexParse(Tail(re), Append(acc, [kind |-> "eol", ch |-> c, star |-> FALSE]))
         ELSE IF c \in RegexSpecial
         THEN [ok |-> FALSE, atoms |-> <<>>]
         ELSE RegexParse(Tail(re), Append(acc, [kind |-> "lit", ch |-> c, star |-> FALSE]))

\* Does atom a accept character c?  The dot accepts everything but a newline.
AtomAccepts(a, c, fold) ==
    IF a.kind = "any" THEN c # "\n"
    ELSE IF fold THEN ToLower(a.ch) = ToLower(c)
    ELSE a.ch = c

\* Do atoms[i..] match s starting at position j (backtracking on the stars)?
RECURSIVE RegexMatchAt(_, _, _, _, _)
RegexMatchAt(atoms, i, s, j, fold) ==
    IF i > Len(atoms) THEN TRUE
    ELSE LET a == atoms[i] IN
         IF a.kind = "bol" THEN j = 1 /\ RegexMatchAt(atoms, i + 1, s, j, fold)
         ELSE IF a.kind = "eol" THEN j = Len(s) + 1 /\ RegexMatchAt(atoms, i + 1, s, j, fold)
         ELSE IF a.star
         THEN \/ RegexMatchAt(atoms, i + 1, s, j, fold)
              \/ /\ j <= Len(s)
                 /\ AtomAccepts(a, s[j], fold)
                 /\ RegexMatchAt(atoms, i, s, j + 1, fold)
         ELSE /\ j <= Len(s)
              /\ AtomAccepts(a, s[j], fold)
              /\ RegexMatchAt(atoms, i + 1, s, j + 1, fold)

\* regexp.MatchString(regex, s): [matched, err].
RegexpMatchString(regex, s) ==
    LET fold   == HasPrefix(regex, RegexFlagI)
        body   == IF fold THEN SubSeq(regex, Len(RegexFlagI) + 1, Len(regex)) ELSE regex
        parsed == RegexParse(body, <<>>)
    IN  IF ~parsed.ok THEN [matched |-> FALSE, err |-> TRUE]
        ELSE [matched |-> \E start \in 1..(Len(s) + 1) :
                              RegexMatchAt(parsed.atoms, 1, s, start, fold),
              err |-> FALSE]

(***************************************************************************)
(* internal/config/config.go: the exception matcher.                       *)
(***************************************************************************)

\* A conversion that does not quote the pattern before replacing its stars.
wildcardPatternToRegex_Unquoted(pattern) ==
    RegexFlagI \o <<"^">> \o ReplaceAll(pattern, <<"*">>, <<".", "*">>) \o <<"$">>

\* "(?i)^" + ReplaceAll(QuoteMeta(pattern), `\*`, ".*") + "$"
wildcardPatternToRegex(pattern) ==
    RegexFlagI \o <<"^">> \o ReplaceAll(QuoteMeta(pattern), <<"\\", "*">>, <<".", "*">>) \o <<"$">>

\* A normalization that trims but keeps the brackets.
normalizeHostToken_KeepBrackets(token) == TrimSpace(token)

normalizeHostToken(token) ==
    LET t == TrimSpace(token)
    IN  IF HasPrefix(t, <<"[">>) /\ HasSuffix(t, <<"]">>) /\ Len(t) > 2
        THEN SubSeq(t, 2, Len(t) - 1)
        ELSE t

splitOutPort(host) ==
    LET r == SplitHostPort(host)
    IN  IF ~r.ok THEN [host |-> host, ok |-> FALSE] ELSE [host |-> r.host, ok |-> TRUE]

\* Candidates without the host stripped of its port.
buildHostCandidates_WholeHostOnly(host) ==
    LET h == TrimSpace(host)
    IN  IF h = <<>> THEN <<>> ELSE <<h>>

buildHostCandidates(host) ==
    LET h == TrimSpace(host)
        p == splitOutPort(h)
    IN  IF h = <<>> THEN <<>>
        ELSE IF p.ok /\ ~EqualFold(p.host, h) THEN <<h, p.host>>
        ELSE <<h>>

\* A loop body without the test for the empty pattern.
PatternMatches_NoBlankCheck(rawPattern, hostCandidates) ==
    LET pattern == TrimSpace(TrimSuffix(rawPattern, <<"/">>))
    IN  IF ContainsChar(pattern, "*")
        THEN LET regex == wildcardPatternToRegex(pattern)
             IN  \E k \in 1..Len(hostCandidates) :
                    LET m == RegexpMatchString(regex, hostCandidates[k])
                    IN  ~m.err /\ m.matched
        ELSE LET normalizedPattern == normalizeHostToken(pattern)
             IN  \E k \in 1..Len(hostCandidates) :
                    EqualFold(normalizeHostToken(hostCandidates[k]), normalizedPattern)

\* The body of the loop over the exceptions for one pattern: does it return true?
PatternMatches(rawPattern, hostCandidates) ==
    LET pattern == TrimSpace(TrimSuffix(rawPattern, <<"/">>))
    IN  IF pattern = <<>> THEN FALSE
        ELSE IF ContainsChar(pattern, "*")
        THEN LET regex == wildcardPatternToRegex(pattern)
             IN  \E k \in 1..Len(hostCandidates) :
                    LET m == RegexpMatchString(regex, hostCandidates[k])
                    IN  ~m.err /\ m.matched
        ELSE LET normalizedPattern == normalizeHostToken(pattern)
             IN  \E k \in 1..Len(hostCandidates) :
                    EqualFold(normalizeHostToken(hostCandidates[k]), normalizedPattern)

\* The loop over the exceptions from the n-th on: true at the first pattern
\* that matches, false when the list is exhausted.
RECURSIVE ExceptionLoop(_, _, _)
ExceptionLoop(exceptions, n, hostCandidates) ==
    IF n > Len(exceptions) THEN FALSE
    ELSE IF PatternMatches(exceptions[n], hostCandidates) THEN TRUE
    ELSE ExceptionLoop(exceptions, n + 1, hostCandidates)

\* A loop that returns what the first pattern gives.
IsException_FirstPatternOnly(host, exceptions) ==
    LET hostCandidates == buildHostCandidates(host)
    IN  /\ Len(hostCandidates) # 0
        /\ Len(exceptions) > 0
        /\ PatternMatches(exceptions[1], hostCandidates)

IsException(host, exceptions) ==
    LET hostCandidates == buildHostCandidates(host)
    IN  IF Len(hostCandidates) = 0 THEN FALSE
        ELSE ExceptionLoop(exceptions, 1, hostCandidates)

(***************************************************************************)
(* internal/config/config.go: GetExceptions, with strings.Split and        *)
(* url.Parse as it calls them.                                             *)
(***************************************************************************)

Http == <<"h", "t", "t", "p", ":", "/", "/">>

Https == <<"h", "t", "t", "p", "s", ":", "/", "/">>

\* strings.Split(s, sep) for a one-character separator.
RECURSIVE Split(_, _)
Split(s, sep) ==
    LET i == IndexByte(s, sep)
    IN  IF i = 0 THEN <<s>>
        ELSE <<SubSeq(s, 1, i - 1)>> \o Split(SubSeq(s, i + 1, Len(s)), sep)

IsDigit(c) == c \in {"0", "1", "2", "3", "4", "5", "6", "7", "8", "9"}

\* net/url validOptionalPort: "" or ":" followed by digits only.
validOptionalPort(port) ==
    port = <<>> \/ (port[1] = ":" /\ \A i \in 2..Len(port) : IsDigit(port[i]))

\* net/url shouldEscape in host mode, on the characters of the model: a host
\* may hold letters, digits, '.', '*', ':' and brackets, not a space.
HostByteOK(c) == ~IsSpace(c) /\ c \notin {"/", "@", "%"}

\* net/url parseHost: does the host parse?  Behind the last ']' of a host
\* that starts with '[', or from the last colon of any other host, stands a
\* valid optional port; every byte must be one a host may hold.
parseHost(host) ==
    /\ IF host # <<>> /\ host[1] = "["
       THEN LET i == LastIndexByte(host, "]")
            IN  i # 0 /\ validOptionalPort(SubSeq(host, i + 1, Len(host)))
       ELSE LET i == LastIndexByte(host, ":")
            IN  i # 0 => validOptionalPort(SubSeq(host, i, Len(host)))
    /\ \A k \in 1..Len(host) : HostByteOK(host[k])

\* url.Parse(p) for p that starts with http:// or https://: [err, Host].
\* The authority runs from behind the "//" to the next '/'; user information
\* ends at the last '@'.
UrlParse(p) ==
    LET rest == SubSeq(p, (IF HasPrefix(p, Http) THEN Len(Http) ELSE Len(Https)) + 1, Len(p))
        i == IndexByte(rest, "/")
        authority == IF i = 0 THEN rest ELSE SubSeq(rest, 1, i - 1)
        at == LastIndexByte(authority, "@")
        host == SubSeq(authority, at + 1, Len(authority))
    IN  IF parseHost(host) THEN [err |-> FALSE, Host |-> host]
        ELSE [err |-> TRUE, Host |-> <<>>]

\* A loop body that removes the trailing slash before it looks for a scheme.
ExceptionEntry_SlashFirst(part) ==
    LET p == TrimSuffix(TrimSpace(part), <<"/">>)
    IN  IF p = <<>> THEN <<>>
        ELSE IF HasPrefix(p, Http) \/ HasPrefix(p, Https)
        THEN LET u == UrlParse(p)
             IN  IF ~u.err /\ u.Host # <<>> THEN <<u.Host>> ELSE <<p>>
        ELSE <<p>>

\* GetExceptions lines 166-179, the loop body: the entries one part adds.
ExceptionEntry(part) ==
    LET p == TrimSpace(part)
    IN  IF p = <<>> THEN <<>>
        ELSE LET q == IF HasPrefix(p, Http) \/ HasPrefix(p, Https)
                      THEN LET u == UrlParse(p)
                           IN  IF ~u.err /\ u.Host # <<>> THEN u.Host ELSE p
                      ELSE p
             IN  <<TrimSuffix(q, <<"/">>)>>

RECURSIVE ExceptionEntries(_)
ExceptionEntries(parts) ==
    IF parts = <<>> THEN <<>>
    ELSE ExceptionEntry(Head(parts)) \o ExceptionEntries(Tail(parts))

\* GetExceptions lines 160-182.
GetExceptions(s) ==
    IF s = <<>> THEN <<>> ELSE ExceptionEntries(Split(s, ","))

(***************************************************************************)
(* internal/config/config.go: LoadConfig and the environment readers.  The *)
(* environment maps a key to <<>> (unset) or to <<value>>.  Durations are  *)
(* counted in milliseconds; the units below a millisecond are not among    *)
(* the values of the model.                                                *)
(***************************************************************************)

\* time.Millisecond and time.Second, in the model's unit.
Millisecond == 1

Second == 1000 * Millisecond

defaultServerReadHeaderTimeout == 10 * Second

defaultServerReadTimeout == 30 * Second

defaultServerWriteTimeout == 30 * Second

defaultServerIdleTimeout == 120 * Second

defaultServerMaxHeaderBytes == 2^20

defaultClientRequestTimeout == 60 * Second

defaultTransportDialTimeout == 10 * Second

defaultTransportKeepAlive == 30 * Second

defaultTransportTLSHandshakeTimeout == 10 * Second

defaultTransportResponseHeaderTimeout == 30 * Second

defaultTransportExpectContinueTimeout == 1 * Second

defaultTransportIdleConnTimeout == 90 * Second

defaultTunnelConnectReadWriteTimeout == 15 * Second

DigitValue(c) ==
    CASE c = "0" -> 0 [] c = "1" -> 1 [] c = "2" -> 2 [] c = "3" -> 3 [] c = "4" -> 4
      [] c = "5" -> 5 [] c = "6" -> 6 [] c = "7" -> 7 [] c = "8" -> 8 [] c = "9" -> 9

\* The value of a run of decimal digits.
RECURSIVE DecimalValue(_)
DecimalValue(digits) ==
    IF digits = <<>> THEN 0
    ELSE 10 * DecimalValue(SubSeq(digits, 1, Len(digits) - 1)) + DigitValue(digits[Len(digits)])

\* The length of the longest prefix of s made of digits / of no digit.
RECURSIVE DigitRun(_)
DigitRun(s) == IF s # <<>> /\ IsDigit(Head(s)) THEN 1 + DigitRun(Tail(s)) ELSE 0

RECURSIVE UnitRun(_)
UnitRun(s) == IF s # <<>> /\ ~IsDigit(Head(s)) /\ Head(s) # "." THEN 1 + UnitRun(Tail(s)) ELSE 0

\* time.ParseDuration's unitMap: [ok, value].
unitMap(u) ==
    CASE u = <<"m", "s">> -> [ok |-> TRUE, value |-> Millisecond]
      [] u = <<"s">> -> [ok |-> TRUE, value |-> Second]
      [] u = <<"m">> -> [ok |-> TRUE, value |-> 60 * Second]
      [] u = <<"h">> -> [ok |-> TRUE, value |-> 3600 * Second]
      [] OTHER -> [ok |-> FALSE, value |-> 0]

\* time.ParseDuration behind the sign: one "<digits><unit>" after the other.
RECURSIVE ParseDurationGroups(_, _)
ParseDurationGroups(s, acc) ==
    IF s = <<>> THEN [err |-> FALSE, d |-> acc]
    ELSE LET n == DigitRun(s)
             rest == SubSeq(s, n + 1, Len(s))
             m == UnitRun(rest)
             u == unitMap(SubSeq(rest, 1, m))
         IN  IF n = 0 \/ m = 0 \/ ~u.ok THEN [err |-> TRUE, d |-> 0]
             ELSE ParseDurationGroups(SubSeq(rest, m + 1, Len(rest)),
                                      acc + DecimalValue(SubSeq(s, 1, n)) * u.value)

\* time.ParseDuration(s): [err, d].  An optional sign; "0" alone is zero.
ParseDuration(s) ==
    LET signed == s # <<>> /\ s[1] \in {"+", "-"}
        body == IF signed THEN Tail(s) ELSE s
        r == ParseDurationGroups(body, 0)
    IN  IF body = <<"0">> THEN [err |-> FALSE, d |-> 0]
        ELSE IF body = <<>> \/ r.err THEN [err |-> TRUE, d |-> 0]
        ELSE [err |-> FALSE, d |-> IF signed /\ s[1] = "-" THEN 0 - r.d ELSE r.d]

\* strconv.Atoi(s): [err, n].  An optional sign and decimal digits.
Atoi(s) ==
    LET signed == s # <<>> /\ s[1] \in {"+", "-"}
        body == IF signed THEN Tail(s) ELSE s
    IN  IF body = <<>> \/ DigitRun(body) # Len(body) THEN [err |-> TRUE, n |-> 0]
        ELSE [err |-> FALSE,
              n |-> IF signed /\ s[1] = "-" THEN 0 - DecimalValue(body) ELSE DecimalValue(body)]

\* os.LookupEnv(key): [ok, val].
LookupEnv(env, key) ==
    IF env[key] = <<>> THEN [ok |-> FALSE, val |-> <<>>] ELSE [ok |-> TRUE, val |-> env[key][1]]

\* os.Getenv(key): the value, "" when unset.
Getenv(env, key) == LookupEnv(env, key).val

GetEnv(env, key, defaultVal) ==
    LET v == LookupEnv(env, key) IN IF v.ok THEN v.val ELSE defaultVal

\* A reader that accepts every duration that parses, whatever its sign.
GetEnvDuration_AnyParsed(env, key, defaultVal) ==
    LET v == LookupEnv(env, key)
    IN  IF ~v.ok \/ TrimSpace(v.val) = <<>> THEN defaultVal
        ELSE LET parsed == ParseDuration(v.val)
             IN  IF parsed.err THEN defaultVal ELSE parsed.d

GetEnvDuration(env, key, defaultVal) ==
    LET v == LookupEnv(env, key)
    IN  IF ~v.ok \/ TrimSpace(v.val) = <<>> THEN defaultVal
        ELSE LET parsed == ParseDuration(v.val)
             IN  IF parsed.err \/ parsed.d <= 0 THEN defaultVal ELSE parsed.d

GetEnvInt(env, key, defaultVal) ==
    LET v == LookupEnv(env, key)
    IN  IF ~v.ok \/ TrimSpace(v.val) = <<>> THEN defaultVal
        ELSE LET parsed == Atoi(v.val)
             IN  IF parsed.err \/ parsed.n <= 0 THEN defaultVal ELSE parsed.n

\* LoadConfig lines 101-127.
LoadConfig(env) ==
    LET config ==
        [UpstreamProxy |-> GetEnv(env, "UPSTREAM_PROXY", <<>>),
         ProxyExceptions |-> <<>>,
         ListenAddr |-> GetEnv(env, "LISTEN_ADDR", <<":", "8", "0", "8", "0">>),
         ProxyAuth |-> GetEnv(env, "PROXY_AUTH", <<>>),
         ServerReadHeaderTimeout |-> GetEnvDuration(env, "SERVER_READ_HEADER_TIMEOUT", defaultServerReadHeaderTimeout),
         ServerReadTimeout |-> GetEnvDuration(env, "SERVER_READ_TIMEOUT", defaultServerReadTimeout),
         ServerWriteTimeout |-> GetEnvDuration(env, "SERVER_WRITE_TIMEOUT", defaultServerWriteTimeout),
         ServerIdleTimeout |-> GetEnvDuration(env, "SERVER_IDLE_TIMEOUT", defaultServerIdleTimeout),
         ServerMaxHeaderBytes |-> GetEnvInt(env, "SERVER_MAX_HEADER_BYTES", defaultServerMaxHeaderBytes),
         ClientRequestTimeout |-> GetEnvDuration(env, "CLIENT_REQUEST_TIMEOUT", defaultClientRequestTimeout),
         TransportDialTimeout |-> GetEnvDuration(env, "TRANSPORT_DIAL_TIMEOUT", defaultTransportDialTimeout),
         TransportKeepAlive |-> GetEnvDuration(env, "TRANSPORT_KEEP_ALIVE", defaultTransportKeepAlive),
         TransportTLSHandshakeTimeout |-> GetEnvDuration(env, "TRANSPORT_TLS_HANDSHAKE_TIMEOUT", defaultTransportTLSHandshakeTimeout),
         TransportResponseHeaderTimeout |-> GetEnvDuration(env, "TRANSPORT_RESPONSE_HEADER_TIMEOUT", defaultTransportResponseHeaderTimeout),
         TransportExpectContinueTimeout |-> GetEnvDuration(env, "TRANSPORT_EXPECT_CONTINUE_TIMEOUT", defaultTransportExpectContinueTimeout),
         TransportIdleConnTimeout |-> GetEnvDuration(env, "TRANSPORT_IDLE_CONN_TIMEOUT", defaultTransportIdleConnTimeout),
         TunnelConnectReadWriteTimeout |-> GetEnvDuration(env, "TUNNEL_CONNECT_READ_WRITE_TIMEOUT", defaultTunnelConnectReadWriteTimeout)]
        exceptions == Getenv(env, "PROXY_EXCEPTIONS")
    IN  IF exceptions # <<>>
        THEN [config EXCEPT !.ProxyExceptions = GetExceptions(exceptions)]
        ELSE config

(***************************************************************************)
(* Bounds and input sets of the model.                                     *)
(***************************************************************************)

\* Bytes the client / the backend may put on a tunnel.
MaxClientBytes == 2

MaxBackendBytes == 2

\* The k-th byte a peer sends: "c1", "c2", ... from the client, "b1", "b2", ...
\* from the backend.
Byte(who, k) == who \o ToString(k)

\* The first n bytes a peer sends, in order.
Stream(who, n) == [k \in 1..n |-> Byte(who, k)]

\* Request hosts: a.x:p, A.x, b.y:p, x:p
ReqHosts ==
    { <<"a", ".", "x", ":", "p">>, <<"A", ".", "x">>, <<"b", ".", "y", ":", "p">>, <<"x", ":", "p">> }

\* cfg.ProxyExceptions: none; *.x; b.y:q, x
ExceptionLists ==
    { <<>>, << <<"*", ".", "x">> >>, << <<"b", ".", "y", ":", "q">>, <<"x">> >> }

Methods == {"CONNECT", "GET", "POST", "connect"}

\* Status codes the upstream may answer a nested CONNECT with.
UpstreamStatuses == {200, 201, 204, 403, 407, 502}

\* Status codes of a forwarded response.
ResponseStatuses == {200, 404}

\* The longest body of a forwarded response.
MaxBodyBytes == 2

\* http.Header on the header names of the model: a name's values, in order.
HeaderNames == {"Content-Type", "Set-Cookie", "X-Content-Type-Options"}

NoHeader == [k \in HeaderNames |-> <<>>]

\* The headers upstream responses carry: none, or a content type and two cookies.
ResponseHeaders ==
    { NoHeader,
      [NoHeader EXCEPT !["Content-Type"] = <<"text/html">>, !["Set-Cookie"] = <<"a=1", "b=2">>] }

\* The responses client.Do may return.
Responses ==
    { [StatusCode |-> st, Header |-> h, Body |-> Stream("r", n)] :
          st \in ResponseStatuses, h \in ResponseHeaders, n \in 0..MaxBodyBytes }

\* The auth scheme that selects the NTLM negotiator (line 125).
Ntlm == <<"n", "t", "l", "m">>

NoResponse == [StatusCode |-> 0, Header |-> NoHeader, Body |-> <<>>]

\* The errors client.Do may return, by their text: the backend refused the
\* connection, or the client timeout ran out before the response head.
RoundTripErrors == { "connection refused", "Client.Timeout exceeded" }

StatusBadGateway == 502

StatusServiceUnavailable == 503

StatusInternalServerError == 500

StatusOK == 200

\* cfg.UpstreamProxy of the model's configurations: up:8
UpstreamAddr == <<"u", "p", ":", "8">>

(***************************************************************************)
(* internal/proxy/proxy.go: the state of one proxy instance handling one   *)
(* request, with the peers it talks to.                                    *)
(***************************************************************************)
VARIABLES
    cfg,          \* config.Config: [UpstreamProxy, ProxyExceptions]
    req,          \* the inbound request: [Method, Host]
    pc,           \* where the request handler stands
    useUpstream,  \* HandleHttps's decision: "unset", "yes" or "no"
    transport,    \* handleHttpWithTransports's choice: "none", "direct", "upstream"
    w,            \* the http.ResponseWriter: [kind, header, written, sentHeader, body, hijacked]
    fwd,          \* ProxyRequest's locals: [resp, err, cause, copied]
    err,          \* EstablishTunnel's err: "nil" or the error
    resp,         \* DialViaUpstream's resp.StatusCode (0: no response read)
    backend,      \* the backend net.Conn: [state, peer, deadline]
    clientClosed, \* clientConn.Close() has been called
    stats,        \* what the peers observed: dials, nested CONNECTs (count and content), round trips
    upReply,      \* the status the upstream answered the nested CONNECT with (0: not yet)
    c2p,          \* client -> proxy bytes: [sent, early, queue, held, peer]
    b2p,          \* backend -> proxy bytes, likewise (early stays 0)
    toBackend,    \* bytes written to the backend connection
    toClient,     \* items written to the hijacked client connection
    g1,           \* Pipe's first goroutine, io.Copy(a, b): backend -> client
    g2,           \* Pipe's second goroutine, io.Copy(b, a): client -> backend
    argHost,      \* IsException's host argument
    argPatterns,  \* IsException's exceptions argument
    retMatched,   \* IsException's result: <<>> before the call, <<b>> after it
    call,         \* a call of one function on its own: [fn, arg, ret, done]
    instance      \* the transports of the process: [transports, built, entry, inUse, served]

handlerVars == <<req, pc, useUpstream, transport, w, fwd, err, resp>>

connVars == <<backend, clientClosed, stats, upReply>>

streamVars == <<c2p, b2p, toBackend, toClient>>

pipeVars == <<g1, g2>>

matchVars == <<argHost, argPatterns, retMatched, call>>

vars == <<cfg, handlerVars, connVars, streamVars, pipeVars, matchVars, instance>>

NoRequest == [Method |-> "", Host |-> <<>>]

\* requestTransports before any transport is constructed.
NoTransports == [direct |-> 0, upstream |-> 0]

\* A process in which Start has not run and no request has been handled.
NoInstance ==
    [transports |-> NoTransports, built |-> 0, entry |-> "none", inUse |-> NoTransports,
     served |-> 0]

NoConn == [state |-> "none", peer |-> "none", deadline |-> FALSE]

NoBytes == [sent |-> 0, early |-> 0, queue |-> <<>>, held |-> <<>>, peer |-> "open"]

Stopped == [pc |-> "off", buf |-> <<>>, end |-> "none"]

\* The proxy variables before a request arrives (after Start built the server).
ProxyIdle ==
    /\ req = NoRequest
    /\ pc = "idle"
    /\ useUpstream = "unset"
    /\ transport = "none"
    /\ w = [kind |-> "hijacker", header |-> NoHeader, written |-> <<>>, sentHeader |-> NoHeader,
            body |-> <<>>, hijacked |-> FALSE]
    /\ fwd = [resp |-> NoResponse, err |-> FALSE, cause |-> "", copied |-> 0]
    /\ err = "nil"
    /\ resp = 0
    /\ backend = NoConn
    /\ clientClosed = FALSE
    /\ stats = [dialTarget |-> 0, dialUpstream |-> 0, connects |-> 0, nested |-> <<>>,
                tripDirect |-> 0, tripUpstream |-> 0]
    /\ upReply = 0
    /\ c2p = NoBytes
    /\ b2p = NoBytes
    /\ toBackend = <<>>
    /\ toClient = <<>>
    /\ g1 = Stopped
    /\ g2 = Stopped
    /\ instance = NoInstance

NoCall == [fn |-> "none", arg |-> <<>>, ret |-> <<>>, done |-> FALSE]

MatchIdle == argHost = <<>> /\ argPatterns = <<>> /\ retMatched = <<>> /\ call = NoCall

Configs == [UpstreamProxy : {UpstreamAddr}, ProxyAuth : {<<>>}, ProxyExceptions : ExceptionLists]

Init == cfg \in Configs /\ ProxyIdle /\ MatchIdle

\* http.StatusText on the codes the proxy answers with.
StatusText(code) ==
    CASE code = 500 -> "Internal Server Error"
      [] code = 502 -> "Bad Gateway"
      [] code = 503 -> "Service Unavailable"
      [] OTHER -> ""

\* w.WriteHeader(code) on the writer w0: the first call sends the status line
\* with the headers set so far; a later call is recorded, the wire keeps the
\* first status.
WriteHeader(w0, code) ==
    [w0 EXCEPT !.written = Append(@, code),
               !.sentHeader = IF w0.written = <<>> THEN w0.header ELSE @]

\* w.Write(chunk) on the writer w0: before any WriteHeader it sends status 200.
Write(w0, chunk) ==
    LET w1 == IF w0.written = <<>> THEN WriteHeader(w0, 200) ELSE w0
    IN  [w1 EXCEPT !.body = @ \o chunk]

\* http.Error(w, text, code): one HTTP-framed response through the writer:
\* plain-text headers, the status, the text as body.
HttpError(code) ==
    LET w1 == [w EXCEPT !.header["Content-Type"] = <<"text/plain; charset=utf-8">>,
                        !.header["X-Content-Type-Options"] = <<"nosniff">>]
    IN  Write(WriteHeader(w1, code), <<StatusText(code) \o "\n">>)

Bypass(host, exceptions) == IsException(host, exceptions)

(***************************************************************************)
(* Dispatch and routing.                                                   *)
(***************************************************************************)

\* A dispatch that compares the method without regard to case.
DispatchPath_AnyCase(method) ==
    IF method \in {"CONNECT", "connect"} THEN "HandleHttps" ELSE "handleHttp"

\* handleRequestWithTransports: the path a method is dispatched to.
DispatchPath(method) == IF method = "CONNECT" THEN "HandleHttps" ELSE "handleHttp"

\* The server hands a request (method m, Host h, writer of kind k) to the handler.
handleRequestWithTransports(m, h, k) ==
    /\ pc = "idle"
    /\ req' = [Method |-> m, Host |-> h]
    /\ w' = [w EXCEPT !.kind = k]
    /\ pc' = DispatchPath(m)
    /\ UNCHANGED <<cfg, fwd, useUpstream, transport, err, resp, connVars, streamVars, pipeVars,
                   matchVars, instance>>

\* HandleHttps without the negation of line 72.
HttpsUseUpstream_NotNegated(host, exceptions) ==
    IF Bypass(host, exceptions) THEN "yes" ELSE "no"

\* HandleHttps line 72: useUpstream := !Bypass(req.Host, cfg.ProxyExceptions)
HttpsUseUpstream(host, exceptions) == IF ~Bypass(host, exceptions) THEN "yes" ELSE "no"

HandleHttps ==
    /\ pc = "HandleHttps"
    /\ useUpstream' = HttpsUseUpstream(req.Host, cfg.ProxyExceptions)
    /\ pc' = "EstablishTunnel"
    /\ UNCHANGED <<cfg, fwd, req, transport, w, err, resp, connVars, streamVars, pipeVars,
                   matchVars, instance>>

\* A forward path that ignores the exceptions.
SelectTransport_AlwaysUpstream(host, exceptions) == "upstream"

\* handleHttpWithTransports lines 85-90: the transport of the forward path.
SelectTransport(host, exceptions) == IF Bypass(host, exceptions) THEN "direct" ELSE "upstream"

handleHttpWithTransports ==
    /\ pc = "handleHttp"
    /\ transport' = SelectTransport(req.Host, cfg.ProxyExceptions)
    /\ pc' = "ProxyRequest"
    /\ UNCHANGED <<cfg, fwd, req, useUpstream, w, err, resp, connVars, streamVars, pipeVars,
                   matchVars, instance>>

(***************************************************************************)
(* The forward path.                                                       *)
(***************************************************************************)

\* newTransport lines 132-150: an http.Transport, with the proxy URL when one
\* is given.  TLSNextProto is left nil (the transport may negotiate HTTP/2)
\* and nothing wraps the transport.
newTransport(c, proxyURL) ==
    [proxy |-> ~proxyURL.err, proxyHost |-> proxyURL.Host,
     TLSNextProto |-> "nil", negotiator |-> FALSE]

\* NewDirectTransport lines 114-116: a transport without proxy.
NewDirectTransport(c) == newTransport(c, [err |-> TRUE, Host |-> <<>>])

\* A constructor that falls back to the direct transport without a word.
UpstreamTransportLog_Silent(c) == <<>>

\* NewUpstreamTransport lines 119-122: what the constructor writes to the
\* Error logger, one line when the proxy URL does not parse.
UpstreamTransportLog(c) ==
    IF UrlParse(Http \o c.UpstreamProxy).err THEN <<"Error">> ELSE <<>>

\* An upstream transport that compares the auth scheme byte by byte.
NewUpstreamTransport_CaseSensitive(c) ==
    LET proxyURL == UrlParse(Http \o c.UpstreamProxy)
    IN  IF proxyURL.err THEN NewDirectTransport(c)
        ELSE LET base == newTransport(c, proxyURL)
             IN  IF c.ProxyAuth = Ntlm
                 THEN [base EXCEPT !.TLSNextProto = "empty", !.negotiator = TRUE]
                 ELSE base

\* NewUpstreamTransport lines 118-130: the proxy URL is parsed from "http://" +
\* cfg.UpstreamProxy; a direct transport when that fails, and otherwise a
\* transport bound to the URL, whatever its host.  For the auth scheme
\* "ntlm" in any case, TLSNextProto is set to an empty map (no HTTP/2) and
\* the transport is wrapped in ntlmssp.Negotiator.
NewUpstreamTransport(c) ==
    LET proxyURL == UrlParse(Http \o c.UpstreamProxy)
    IN  IF proxyURL.err THEN NewDirectTransport(c)
        ELSE LET base == newTransport(c, proxyURL)
             IN  IF EqualFold(c.ProxyAuth, Ntlm)
                 THEN [base EXCEPT !.TLSNextProto = "empty", !.negotiator = TRUE]
                 ELSE base

\* A clone that leaves the URL's host as the inbound URL has it.
CloneRequest_KeepsURLHost(r) ==
    [r EXCEPT !.RequestURI = <<>>,
              !.URL.Scheme = IF r.URL.Scheme = <<>> THEN <<"h", "t", "t", "p">> ELSE @]

\* CloneRequest lines 222-230: req.Clone copies every field (the URL and the
\* headers deeply, the body by reference); then the request-URI is emptied,
\* an empty URL scheme becomes "http" and the URL's host becomes req.Host.
CloneRequest(r) ==
    [r EXCEPT !.RequestURI = <<>>,
              !.URL.Scheme = IF r.URL.Scheme = <<>> THEN <<"h", "t", "t", "p">> ELSE @,
              !.URL.Host = r.Host]

\* The transport behind a field of requestTransports.
TransportOf(t) == IF t = "direct" THEN NewDirectTransport(cfg) ELSE NewUpstreamTransport(cfg)

\* One round trip on the chosen transport, as its peer counts it: a transport
\* with a proxy URL sends the request to the proxy address (the default port
\* of the local host when the URL has no host), one without to the destination.
CountTrip(t) ==
    IF TransportOf(t).proxy THEN [stats EXCEPT !.tripUpstream = @ + 1]
    ELSE [stats EXCEPT !.tripDirect = @ + 1]

\* A forward path that answers a failed round trip with 503, as the tunnel
\* path answers its failures.
ProxyRequest_ServiceUnavailable ==
    /\ pc = "ProxyRequest"
    /\ stats' = CountTrip(transport)
    /\ \/ /\ \E e \in RoundTripErrors : fwd' = [fwd EXCEPT !.err = TRUE, !.cause = e]
          /\ w' = HttpError(StatusServiceUnavailable)
          /\ pc' = "done"
       \/ /\ \E r \in Responses : fwd' = [fwd EXCEPT !.resp = r]
          /\ w' = w
          /\ pc' = "CopyResponse"
    /\ UNCHANGED <<cfg, req, useUpstream, transport, err, resp, backend, clientClosed,
                   upReply, streamVars, pipeVars, matchVars, instance>>

\* ProxyRequest lines 95-107: client.Do(outbound) fails (an error, or the
\* client timeout before the response head) and the caller gets 502 with the
\* status text (http.StatusText, line 103; err goes to the log of line 102
\* only), or it returns a response, which goes to CopyResponse.
ProxyRequest ==
    /\ pc = "ProxyRequest"
    /\ stats' = CountTrip(transport)
    /\ \/ /\ \E e \in RoundTripErrors : fwd' = [fwd EXCEPT !.err = TRUE, !.cause = e]
          /\ w' = HttpError(StatusBadGateway)
          /\ pc' = "done"
       \/ /\ \E r \in Responses : fwd' = [fwd EXCEPT !.resp = r]
          /\ w' = w
          /\ pc' = "CopyResponse"
    /\ UNCHANGED <<cfg, req, useUpstream, transport, err, resp, backend, clientClosed,
                   upReply, streamVars, pipeVars, matchVars, instance>>

\* CopyResponse lines 233-237: every value of every header is added to the
\* writer's headers (the order of the names does not show in the result).
AddHeaders(to, from) == [k \in HeaderNames |-> to[k] \o from[k]]

\* A CopyResponse that writes the status before it copies the headers.
CopyResponse_StatusFirst ==
    /\ pc = "CopyResponse"
    /\ w' = LET w1 == WriteHeader(w, fwd.resp.StatusCode)
            IN  [w1 EXCEPT !.header = AddHeaders(w.header, fwd.resp.Header)]
    /\ pc' = "CopyBody"
    /\ UNCHANGED <<cfg, req, useUpstream, transport, fwd, err, resp, connVars, streamVars,
                   pipeVars, matchVars, instance>>

\* CopyResponse lines 233-238: the headers are copied, then the status is written.
CopyResponse ==
    /\ pc = "CopyResponse"
    /\ w' = WriteHeader([w EXCEPT !.header = AddHeaders(w.header, fwd.resp.Header)],
                        fwd.resp.StatusCode)
    /\ pc' = "CopyBody"
    /\ UNCHANGED <<cfg, req, useUpstream, transport, fwd, err, resp, connVars, streamVars,
                   pipeVars, matchVars, instance>>

\* CopyResponse lines 239-242, io.Copy(w, resp.Body): the next byte of the
\* body is copied; or the body has ended; or reading the body or writing to
\* the client fails (also by the client timeout, which covers the body), which
\* is logged and nothing else.
CopyBody ==
    /\ pc = "CopyBody"
    /\ \/ /\ fwd.copied < Len(fwd.resp.Body)
          /\ w' = Write(w, <<fwd.resp.Body[fwd.copied + 1]>>)
          /\ fwd' = [fwd EXCEPT !.copied = @ + 1]
          /\ pc' = pc
       \/ /\ fwd.copied = Len(fwd.resp.Body)
          /\ w' = w
          /\ fwd' = fwd
          /\ pc' = "done"
       \/ /\ w' = w
          /\ fwd' = [fwd EXCEPT !.err = TRUE]
          /\ pc' = "done"
    /\ UNCHANGED <<cfg, req, useUpstream, transport, err, resp, connVars, streamVars,
                   pipeVars, matchVars, instance>>

(***************************************************************************)
(* The tunnel path: EstablishTunnel and DialViaUpstream.                   *)
(***************************************************************************)

\* The errors of DialViaUpstream (lines 190-216) and of the direct dial.
ErrDirectDial == "dial tcp"

ErrUpstreamDial == "upstream dial failed"

ErrSetDeadline == "failed to set upstream CONNECT deadline"

ErrSendConnect == "failed to send CONNECT"

ErrBadResponse == "bad CONNECT response"

ErrRejected == "upstream CONNECT failed"

ErrClearDeadline == "failed to clear upstream CONNECT deadline"

DialErrors ==
    {ErrDirectDial, ErrUpstreamDial, ErrSetDeadline, ErrSendConnect, ErrBadResponse,
     ErrRejected, ErrClearDeadline}

\* A failing step that returns the error without closing the connection.
DialFails_LeavesOpen(e, closing) ==
    /\ err' = e
    /\ backend' = backend
    /\ pc' = "TunnelFailed"

\* A step of the dial fails with error e; closing says whether the connection
\* to the upstream, already open, is closed before DialViaUpstream returns.
DialFails(e, closing) ==
    /\ err' = e
    /\ backend' = IF closing THEN [backend EXCEPT !.state = "closed"] ELSE backend
    /\ pc' = "TunnelFailed"

\* net.DialTimeout("tcp", address, ...) can connect only to an address of the
\* form host:port; the empty address and a host without port are errors.
Dialable(address) == SplitHostPort(address).ok

\* EstablishTunnel lines 152-160: the function is entered with the route
\* decided and calls the dial of that route; the backend is being dialed.
EstablishTunnel ==
    /\ pc = "EstablishTunnel"
    /\ pc' = "DialTimeout"
    /\ UNCHANGED <<cfg, fwd, req, useUpstream, transport, w, err, resp, connVars, streamVars,
                   pipeVars, matchVars, instance>>

\* EstablishTunnel lines 156-160 with useUpstream false: net.DialTimeout to
\* req.Host, which connects or fails.
DialDirect ==
    /\ pc = "DialTimeout"
    /\ useUpstream = "no"
    /\ stats' = [stats EXCEPT !.dialTarget = @ + 1]
    /\ \/ /\ Dialable(req.Host)
          /\ backend' = [state |-> "open", peer |-> "target", deadline |-> FALSE]
          /\ pc' = "Hijack"
          /\ err' = err
       \/ DialFails(ErrDirectDial, FALSE)
    /\ UNCHANGED <<cfg, fwd, req, useUpstream, transport, w, resp, clientClosed, upReply,
                   streamVars, pipeVars, matchVars, instance>>

\* DialViaUpstream lines 188-191: net.DialTimeout to cfg.UpstreamProxy.
DialUpstream ==
    /\ pc = "DialTimeout"
    /\ useUpstream = "yes"
    /\ stats' = [stats EXCEPT !.dialUpstream = @ + 1]
    /\ \/ /\ Dialable(cfg.UpstreamProxy)
          /\ backend' = [state |-> "open", peer |-> "upstream", deadline |-> FALSE]
          /\ pc' = "SetDeadline"
          /\ err' = err
       \/ DialFails(ErrUpstreamDial, FALSE)
    /\ UNCHANGED <<cfg, fwd, req, useUpstream, transport, w, resp, clientClosed, upReply,
                   streamVars, pipeVars, matchVars, instance>>

\* DialViaUpstream lines 192-195: the handshake deadline is set, or setting it
\* fails and the connection is closed.
SetDeadline ==
    /\ pc = "SetDeadline"
    /\ \/ /\ backend' = [backend EXCEPT !.deadline = TRUE]
          /\ pc' = "WriteConnect"
          /\ err' = err
       \/ DialFails(ErrSetDeadline, TRUE)
    /\ UNCHANGED <<cfg, fwd, req, useUpstream, transport, w, resp, clientClosed, stats, upReply,
                   streamVars, pipeVars, matchVars, instance>>

\* A nested CONNECT that offers NTLM when the auth scheme asks for it.
connectReq_Negotiates(target) ==
    [Method |-> "CONNECT", RequestURI |-> target,
     Header |-> IF EqualFold(cfg.ProxyAuth, Ntlm)
                THEN << <<"Host", target>>, <<"Proxy-Authorization", "NTLM">> >>
                ELSE << <<"Host", target>> >>]

\* DialViaUpstream line 197: the nested CONNECT as it is written, the request
\* line for the target and a Host header, nothing else.
connectReq(target) ==
    [Method |-> "CONNECT", RequestURI |-> target, Header |-> << <<"Host", target>> >>]

\* DialViaUpstream lines 197-201: "CONNECT <target> HTTP/1.1" is written to the
\* upstream, or the write fails and the connection is closed.
WriteConnect ==
    /\ pc = "WriteConnect"
    /\ \/ /\ stats' = [stats EXCEPT !.connects = @ + 1,
                                    !.nested = Append(@, connectReq(req.Host))]
          /\ backend' = backend
          /\ pc' = "ReadResponse"
          /\ err' = err
       \/ /\ stats' = stats
          /\ DialFails(ErrSendConnect, TRUE)
    /\ UNCHANGED <<cfg, fwd, req, useUpstream, transport, w, resp, clientClosed, upReply,
                   streamVars, pipeVars, matchVars, instance>>

\* The upstream answers the nested CONNECT with a status.
UpstreamReply(st) ==
    /\ pc = "ReadResponse"
    /\ upReply = 0
    /\ upReply' = st
    /\ UNCHANGED <<cfg, handlerVars, backend, clientClosed, stats, streamVars, pipeVars,
                   matchVars, instance>>

\* DialViaUpstream lines 203-208: http.ReadResponse on a bufio.Reader over the
\* connection.  The reader takes the response head and whatever the upstream
\* sent behind it that has arrived (k bytes); or the read fails (deadline
\* expired, malformed response, connection ended) and the connection is closed.
ReadResponse ==
    /\ pc = "ReadResponse"
    /\ \/ /\ upReply # 0
          /\ \E k \in 0..Len(b2p.queue) :
                b2p' = [b2p EXCEPT !.held = SubSeq(b2p.queue, 1, k),
                                   !.queue = SubSeq(b2p.queue, k + 1, Len(b2p.queue))]
          /\ resp' = upReply
          /\ backend' = backend
          /\ pc' = "CheckStatus"
          /\ err' = err
       \/ /\ b2p' = b2p
          /\ resp' = resp
          /\ DialFails(ErrBadResponse, TRUE)
    /\ UNCHANGED <<cfg, fwd, req, useUpstream, transport, w, clientClosed, stats, upReply,
                   c2p, toBackend, toClient, pipeVars, matchVars, instance>>

\* A status check that accepts every 2xx code.
ConnectAccepted_Any2xx(status) == status >= 200 /\ status < 300

\* DialViaUpstream line 210: the statuses that end the handshake in success.
ConnectAccepted(status) == status = StatusOK

\* A handshake that returns the connection with the deadline still set.
CheckStatus_KeepsDeadline ==
    /\ pc = "CheckStatus"
    /\ \/ /\ ~ConnectAccepted(resp)
          /\ DialFails(ErrRejected, TRUE)
       \/ /\ ConnectAccepted(resp)
          /\ backend' = backend
          /\ pc' = "Hijack"
          /\ err' = err
    /\ UNCHANGED <<cfg, fwd, req, useUpstream, transport, w, resp, clientClosed, stats, upReply,
                   streamVars, pipeVars, matchVars, instance>>

\* DialViaUpstream lines 210-219: a rejecting status closes the connection;
\* otherwise the deadline is cleared (or clearing fails and the connection is
\* closed) and the connection is returned as the backend.
CheckStatus ==
    /\ pc = "CheckStatus"
    /\ \/ /\ ~ConnectAccepted(resp)
          /\ DialFails(ErrRejected, TRUE)
       \/ /\ ConnectAccepted(resp)
          /\ backend' = [backend EXCEPT !.deadline = FALSE]
          /\ pc' = "Hijack"
          /\ err' = err
       \/ /\ ConnectAccepted(resp)
          /\ DialFails(ErrClearDeadline, TRUE)
    /\ UNCHANGED <<cfg, fwd, req, useUpstream, transport, w, resp, clientClosed, stats, upReply,
                   streamVars, pipeVars, matchVars, instance>>

\* A failed dial answered with 502, as the forward path answers its failures.
TunnelFailed_BadGateway ==
    /\ pc = "TunnelFailed"
    /\ w' = HttpError(StatusBadGateway)
    /\ pc' = "done"
    /\ UNCHANGED <<cfg, fwd, req, useUpstream, transport, err, resp, connVars, streamVars,
                   pipeVars, matchVars, instance>>

\* A handler that goes on to the hijack after a failed dial.
TunnelFailed_GoesOn ==
    /\ pc = "TunnelFailed"
    /\ w' = w
    /\ pc' = "Hijack"
    /\ UNCHANGED <<cfg, fwd, req, useUpstream, transport, err, resp, connVars, streamVars,
                   pipeVars, matchVars, instance>>

\* EstablishTunnel lines 161-165: err != nil after the dial: 503 and return.
TunnelFailed ==
    /\ pc = "TunnelFailed"
    /\ w' = HttpError(StatusServiceUnavailable)
    /\ pc' = "done"
    /\ UNCHANGED <<cfg, fwd, req, useUpstream, transport, err, resp, connVars, streamVars,
                   pipeVars, matchVars, instance>>

\* A hijack followed by a status written through the response writer.
Hijack_ThenStatus ==
    /\ pc = "Hijack"
    /\ w.kind = "hijacker"
    /\ w' = WriteHeader([w EXCEPT !.hijacked = TRUE], StatusOK)
    /\ pc' = "Reply"
    /\ UNCHANGED <<cfg, fwd, req, useUpstream, transport, err, resp, connVars, streamVars,
                   pipeVars, matchVars, instance>>

\* A handler that answers a writer it cannot hijack without closing the backend.
Hijack_LeavesBackendOpen ==
    /\ pc = "Hijack"
    /\ \/ /\ w.kind = "plain"
          /\ w' = HttpError(StatusInternalServerError)
          /\ err' = err
          /\ pc' = "done"
       \/ /\ w.kind = "hijackFails"
          /\ w' = HttpError(StatusServiceUnavailable)
          /\ err' = "hijack failed"
          /\ pc' = "done"
       \/ /\ w.kind = "hijacker"
          /\ w' = [w EXCEPT !.hijacked = TRUE]
          /\ err' = err
          /\ pc' = "Reply"
    /\ UNCHANGED <<cfg, fwd, req, useUpstream, transport, resp, connVars, streamVars,
                   pipeVars, matchVars, instance>>

\* EstablishTunnel lines 167-181: the writer is no http.Hijacker (500), the
\* hijack fails (503), or the client connection is taken over.  The buffered
\* reader Hijack returns is dropped (the blank identifier of line 175), and
\* with it the client bytes the server had already read (c2p.held).
Hijack ==
    /\ pc = "Hijack"
    /\ \/ /\ w.kind = "plain"
          /\ backend' = [backend EXCEPT !.state = "closed"]
          /\ w' = HttpError(StatusInternalServerError)
          /\ err' = err
          /\ pc' = "done"
       \/ /\ w.kind = "hijackFails"
          /\ backend' = [backend EXCEPT !.state = "closed"]
          /\ w' = HttpError(StatusServiceUnavailable)
          /\ err' = "hijack failed"
          /\ pc' = "done"
       \/ /\ w.kind = "hijacker"
          /\ backend' = backend
          /\ w' = [w EXCEPT !.hijacked = TRUE]
          /\ err' = err
          /\ pc' = "Reply"
    /\ UNCHANGED <<cfg, fwd, req, useUpstream, transport, resp, clientClosed, stats, upReply,
                   streamVars, pipeVars, matchVars, instance>>

\* A reply that goes on with a header line.
ConnectReply_WithHeader ==
    <<"HTTP/1.1 200 Connection Established\r\n", "Proxy-Agent: DynamicProxy\r\n\r\n">>

\* EstablishTunnel line 183: what is written to the hijacked connection.
ConnectReply == <<"HTTP/1.1 200 Connection Established\r\n\r\n">>

\* EstablishTunnel line 183: the reply is written to the hijacked connection;
\* the error of the write is ignored (the client may be gone).
Reply ==
    /\ pc = "Reply"
    /\ toClient' = IF c2p.peer = "reset" THEN toClient ELSE toClient \o ConnectReply
    /\ pc' = "Pipe"
    /\ UNCHANGED <<cfg, fwd, req, useUpstream, transport, w, err, resp, connVars, c2p, b2p,
                   toBackend, pipeVars, matchVars, instance>>

\* A handler that closes the backend itself when it returns (a deferred
\* backend.Close() in EstablishTunnel).
Pipe_HandlerCloses ==
    /\ pc = "Pipe"
    /\ g1' = [g1 EXCEPT !.pc = "read"]
    /\ g2' = [g2 EXCEPT !.pc = "read"]
    /\ backend' = [backend EXCEPT !.state = "closed"]
    /\ pc' = "done"
    /\ UNCHANGED <<cfg, fwd, req, useUpstream, transport, w, err, resp, clientClosed, stats,
                   upReply, streamVars, matchVars, instance>>

\* A Pipe that starts the goroutines and returns when both have ended.
Pipe_WaitsForRelay ==
    /\ pc = "Pipe"
    /\ \/ /\ g1.pc = "off"
          /\ g1' = [g1 EXCEPT !.pc = "read"]
          /\ g2' = [g2 EXCEPT !.pc = "read"]
          /\ pc' = pc
       \/ /\ g1.pc = "done" /\ g2.pc = "done"
          /\ g1' = g1 /\ g2' = g2
          /\ pc' = "done"
    /\ UNCHANGED <<cfg, fwd, req, useUpstream, transport, w, err, resp, connVars, streamVars,
                   matchVars, instance>>

\* Pipe lines 245-260: both goroutines are started and the handler returns.
Pipe ==
    /\ pc = "Pipe"
    /\ g1' = [g1 EXCEPT !.pc = "read"]
    /\ g2' = [g2 EXCEPT !.pc = "read"]
    /\ pc' = "done"
    /\ UNCHANGED <<cfg, fwd, req, useUpstream, transport, w, err, resp, connVars, streamVars,
                   matchVars, instance>>

(***************************************************************************)
(* The relay: Pipe's two goroutines.  io.Copy(dst, src) reads a chunk from *)
(* src and writes it to dst until a read ends in EOF or a read or write    *)
(* fails; then the deferred b.Close() and a.Close() run, in that order.    *)
(***************************************************************************)

\* A Read returns: the connection was closed locally, bytes are waiting, or
\* the peer ended or reset the stream.
ReadReturns(closedHere, s) == closedHere \/ s.queue # <<>> \/ s.peer # "open"

\* A Read fails on a connection closed locally or reset by the peer.
ReadFails(closedHere, s) == closedHere \/ s.peer = "reset"

\* Taking k bytes off a stream.
Take(s, k) == [s EXCEPT !.queue = SubSeq(s.queue, k + 1, Len(s.queue))]

\* What io.Copy writes to dst for the chunk it read.
CopyChunk(dst, buf) == dst \o buf

\* Goroutine 1, line 249, io.Copy(a, b): read from the backend.
G1Read ==
    /\ g1.pc = "read"
    /\ ReadReturns(backend.state = "closed", b2p)
    /\ \/ /\ ReadFails(backend.state = "closed", b2p)
          /\ g1' = [g1 EXCEPT !.pc = "closeB", !.end = "error"]
          /\ b2p' = b2p
       \/ /\ ~ReadFails(backend.state = "closed", b2p)
          /\ b2p.queue # <<>>
          /\ \E k \in 1..Len(b2p.queue) :
                /\ g1' = [g1 EXCEPT !.pc = "write", !.buf = SubSeq(b2p.queue, 1, k)]
                /\ b2p' = Take(b2p, k)
       \/ /\ ~ReadFails(backend.state = "closed", b2p)
          /\ b2p.queue = <<>>
          /\ g1' = [g1 EXCEPT !.pc = "closeB", !.end = "eof"]
          /\ b2p' = b2p
    /\ UNCHANGED <<cfg, handlerVars, connVars, c2p, toBackend, toClient, g2, matchVars, instance>>

\* Goroutine 1, line 249: write the chunk to the client.
G1Write ==
    /\ g1.pc = "write"
    /\ \/ /\ (clientClosed \/ c2p.peer = "reset")
          /\ g1' = [g1 EXCEPT !.pc = "closeB", !.buf = <<>>, !.end = "error"]
          /\ toClient' = toClient
       \/ /\ ~(clientClosed \/ c2p.peer = "reset")
          /\ toClient' = CopyChunk(toClient, g1.buf)
          /\ g1' = [g1 EXCEPT !.pc = "read", !.buf = <<>>]
    /\ UNCHANGED <<cfg, handlerVars, connVars, c2p, b2p, toBackend, g2, matchVars, instance>>

\* Goroutine 1, lines 247-248: the deferred closes, b first.
PipeCloseB(g) == [g EXCEPT !.pc = "closeA"]

G1CloseB ==
    /\ g1.pc = "closeB"
    /\ backend' = [backend EXCEPT !.state = "closed"]
    /\ g1' = PipeCloseB(g1)
    /\ UNCHANGED <<cfg, handlerVars, clientClosed, stats, upReply, streamVars, g2, matchVars, instance>>

\* A goroutine 1 that closes only the connection it read from.
G1CloseA_NotClosing ==
    /\ g1.pc = "closeA"
    /\ g1' = [g1 EXCEPT !.pc = "done"]
    /\ UNCHANGED <<cfg, handlerVars, connVars, streamVars, g2, matchVars, instance>>

\* Goroutine 1, line 247: the deferred a.Close().
G1CloseA ==
    /\ g1.pc = "closeA"
    /\ clientClosed' = TRUE
    /\ g1' = [g1 EXCEPT !.pc = "done"]
    /\ UNCHANGED <<cfg, handlerVars, backend, stats, upReply, streamVars, g2, matchVars, instance>>

\* Goroutine 2, line 256, io.Copy(b, a): read from the client.
G2Read ==
    /\ g2.pc = "read"
    /\ ReadReturns(clientClosed, c2p)
    /\ \/ /\ ReadFails(clientClosed, c2p)
          /\ g2' = [g2 EXCEPT !.pc = "closeB", !.end = "error"]
          /\ c2p' = c2p
       \/ /\ ~ReadFails(clientClosed, c2p)
          /\ c2p.queue # <<>>
          /\ \E k \in 1..Len(c2p.queue) :
                /\ g2' = [g2 EXCEPT !.pc = "write", !.buf = SubSeq(c2p.queue, 1, k)]
                /\ c2p' = Take(c2p, k)
       \/ /\ ~ReadFails(clientClosed, c2p)
          /\ c2p.queue = <<>>
          /\ g2' = [g2 EXCEPT !.pc = "closeB", !.end = "eof"]
          /\ c2p' = c2p
    /\ UNCHANGED <<cfg, handlerVars, connVars, b2p, toBackend, toClient, g1, matchVars, instance>>

\* Goroutine 2, line 256: write the chunk to the backend.
G2Write ==
    /\ g2.pc = "write"
    /\ \/ /\ (backend.state = "closed" \/ b2p.peer = "reset")
          /\ g2' = [g2 EXCEPT !.pc = "closeB", !.buf = <<>>, !.end = "error"]
          /\ toBackend' = toBackend
       \/ /\ ~(backend.state = "closed" \/ b2p.peer = "reset")
          /\ toBackend' = CopyChunk(toBackend, g2.buf)
          /\ g2' = [g2 EXCEPT !.pc = "read", !.buf = <<>>]
    /\ UNCHANGED <<cfg, handlerVars, connVars, c2p, b2p, toClient, g1, matchVars, instance>>

\* Goroutine 2, lines 254-255: the deferred closes, b first.
G2CloseB ==
    /\ g2.pc = "closeB"
    /\ backend' = [backend EXCEPT !.state = "closed"]
    /\ g2' = PipeCloseB(g2)
    /\ UNCHANGED <<cfg, handlerVars, clientClosed, stats, upReply, streamVars, g1, matchVars, instance>>

\* A goroutine 2 that closes only the connection it wrote to.
G2CloseA_NotClosing ==
    /\ g2.pc = "closeA"
    /\ g2' = [g2 EXCEPT !.pc = "done"]
    /\ UNCHANGED <<cfg, handlerVars, connVars, streamVars, g1, matchVars, instance>>

\* Goroutine 2, line 254: the deferred a.Close().
G2CloseA ==
    /\ g2.pc = "closeA"
    /\ clientClosed' = TRUE
    /\ g2' = [g2 EXCEPT !.pc = "done"]
    /\ UNCHANGED <<cfg, handlerVars, backend, stats, upReply, streamVars, g1, matchVars, instance>>

(***************************************************************************)
(* The peers: the client, the HTTP server's buffered reader in front of    *)
(* the handler, and the backend (the target, or the upstream once it has   *)
(* accepted the nested CONNECT).                                           *)
(***************************************************************************)

\* A CONNECT request is being handled and the client connection is not yet hijacked.
BeforeHijack ==
    pc \in {"HandleHttps", "EstablishTunnel", "DialTimeout", "SetDeadline", "WriteConnect",
            "ReadResponse", "CheckStatus", "TunnelFailed", "Hijack"}

\* The client's end of the tunnel is in use.
ClientActive ==
    /\ ~clientClosed
    /\ BeforeHijack \/ pc \in {"Reply", "Pipe"} \/ g1.pc # "off"

\* The backend's end of the tunnel is in use.
BackendActive ==
    /\ backend.state = "open"
    /\ backend.peer = "target" \/ upReply = StatusOK

ClientSend ==
    /\ ClientActive
    /\ c2p.peer = "open"
    /\ c2p.sent < MaxClientBytes
    /\ c2p' = [c2p EXCEPT !.sent = @ + 1,
                         !.early = IF BeforeHijack \/ pc = "Reply" THEN @ + 1 ELSE @,
                         !.queue = Append(@, Byte("c", c2p.sent + 1))]
    /\ UNCHANGED <<cfg, handlerVars, connVars, b2p, toBackend, toClient, pipeVars, matchVars, instance>>

\* The client finishes sending (half close) or drops the connection.
ClientEnd(how) ==
    /\ ClientActive
    /\ c2p.peer = "open"
    /\ c2p' = [c2p EXCEPT !.peer = how]
    /\ UNCHANGED <<cfg, handlerVars, connVars, b2p, toBackend, toClient, pipeVars, matchVars, instance>>

\* net/http's connection reader takes client bytes that follow the request
\* head into its buffer while the handler runs.
ServerBuffers ==
    /\ BeforeHijack
    /\ c2p.queue # <<>>
    /\ \E k \in 1..Len(c2p.queue) :
          c2p' = [c2p EXCEPT !.held = @ \o SubSeq(c2p.queue, 1, k),
                             !.queue = SubSeq(c2p.queue, k + 1, Len(c2p.queue))]
    /\ UNCHANGED <<cfg, handlerVars, connVars, b2p, toBackend, toClient, pipeVars, matchVars, instance>>

BackendSend ==
    /\ BackendActive
    /\ b2p.peer = "open"
    /\ b2p.sent < MaxBackendBytes
    /\ b2p' = [b2p EXCEPT !.sent = @ + 1, !.queue = Append(@, Byte("b", b2p.sent + 1))]
    /\ UNCHANGED <<cfg, handlerVars, connVars, c2p, toBackend, toClient, pipeVars, matchVars, instance>>

\* The backend finishes sending or drops the connection.
BackendEnd(how) ==
    /\ BackendActive
    /\ b2p.peer = "open"
    /\ b2p' = [b2p EXCEPT !.peer = how]
    /\ UNCHANGED <<cfg, handlerVars, connVars, c2p, toBackend, toClient, pipeVars, matchVars, instance>>

PipeStep == G1Read \/ G1Write \/ G1CloseB \/ G1CloseA \/ G2Read \/ G2Write \/ G2CloseB \/ G2CloseA

Peers ==
    \/ ClientSend
    \/ \E how \in {"eof", "reset"} : ClientEnd(how)
    \/ ServerBuffers
    \/ BackendSend
    \/ \E how \in {"eof", "reset"} : BackendEnd(how)
    \/ \E st \in UpstreamStatuses : UpstreamReply(st)

(***************************************************************************)
(* The matcher on its own: IsException called on a host and a pattern list *)
(* drawn from all short strings over the characters that matter to it.     *)
(***************************************************************************)
MaxHostLen == 2

MaxPatternLen == 2

HostChars == {"a", "A", ".", ":", "[", "]", " "}

PatternChars == {"a", ".", ":", "*", "[", "]", "/", " "}

Strings(chars, n) == UNION {[1..k -> chars] : k \in 0..n}

\* Every short host against every short pattern.
ShortInputs ==
    Strings(HostChars, MaxHostLen) \X Strings(PatternChars, MaxPatternLen)

\* Hosts and patterns of the shapes requests and configurations have: a name
\* (a, A, b.a, B.a, the IPv6-like ::a), bare or in brackets, with or without
\* a port (p, q); patterns also with a leading wildcard.
Names == { <<"a">>, <<"A">>, <<"b", ".", "a">>, <<"B", ".", "a">>, <<":", ":", "a">> }

Ports == { <<"p">>, <<"q">> }

WithPorts(S) == S \cup { h \o <<":">> \o p : h \in S, p \in Ports }

ShapedHosts == WithPorts(Names \cup { <<"[">> \o n \o <<"]">> : n \in Names })

ShapedPatterns ==
    ShapedHosts
    \cup WithPorts({ <<"*", ".">> \o n : n \in Names } \cup { <<"*">>, <<"[", "*", "]">> })

ShapedInputs == ShapedHosts \X ShapedPatterns

MatchInit ==
    /\ cfg = [UpstreamProxy |-> UpstreamAddr, ProxyAuth |-> <<>>, ProxyExceptions |-> <<>>]
    /\ ProxyIdle
    /\ \E in \in ShortInputs \cup ShapedInputs :
          /\ argHost = in[1]
          /\ argPatterns = <<in[2]>>
    /\ retMatched = <<>>
    /\ call = NoCall

\* The call IsException(argHost, argPatterns).
CallIsException ==
    /\ retMatched = <<>>
    /\ retMatched' = <<IsException(argHost, argPatterns)>>
    /\ UNCHANGED <<cfg, handlerVars, connVars, streamVars, pipeVars, argHost, argPatterns,
                   call, instance>>

MatchNext == CallIsException

MatchSpec == MatchInit /\ [][MatchNext]_vars

(***************************************************************************)
(* The matcher on lists of patterns: a few hosts against every list of up  *)
(* to MaxPatterns patterns, blank and repeated ones among them.            *)
(***************************************************************************)
MaxPatterns == 3

ListHosts ==
    { <<"a">>, <<"A", ":", "p">>, <<"b", ".", "a">>, <<"[", "a", "]", ":", "p">>, <<":", "p">>,
      <<" ">>, <<>> }

ListPatterns ==
    { <<"a">>, <<"*", ".", "a">>, <<"b", ".", "a", ":", "p">>, <<"[", "a", "]">>, <<" ">>,
      <<" ", "/">>, <<"a", ":", "q">> }

PatternLists == UNION {[1..k -> ListPatterns] : k \in 0..MaxPatterns}

ListInit ==
    /\ cfg = [UpstreamProxy |-> UpstreamAddr, ProxyAuth |-> <<>>, ProxyExceptions |-> <<>>]
    /\ ProxyIdle
    /\ argHost \in ListHosts
    /\ argPatterns \in PatternLists
    /\ retMatched = <<>>
    /\ call = NoCall

ListSpec == ListInit /\ [][MatchNext]_vars

Returned == retMatched # <<>>

Reverse(list) == [i \in 1..Len(list) |-> list[Len(list) + 1 - i]]

\* C25: IsException(host, patterns) is true exactly if IsException(host, [p])
\* is true for some pattern p of the list; the result is the same for the
\* list reversed, rotated, and with any of its patterns repeated, and a
\* list that bypasses the host still does with any pattern added in front
\* or behind.
C25_AnyPatternMatches ==
    Returned =>
        LET result == retMatched[1]
            n == Len(argPatterns)
        IN  /\ result = (\E i \in 1..n : IsException(argHost, <<argPatterns[i]>>))
            /\ IsException(argHost, Reverse(argPatterns)) = result
            /\ n > 0 => IsException(argHost, Tail(argPatterns) \o <<Head(argPatterns)>>) = result
            /\ \A i \in 1..n :
                  /\ IsException(argHost, Append(argPatterns, argPatterns[i])) = result
                  /\ IsException(argHost, <<argPatterns[i]>> \o argPatterns) = result
            /\ result => \A p \in ListPatterns :
                  /\ IsException(argHost, Append(argPatterns, p))
                  /\ IsException(argHost, <<p>> \o argPatterns)

\* b.a against a list whose third pattern alone matches it: bypassed.
C25_Witness ==
    /\ Returned
    /\ argHost = <<"b", ".", "a">>
    /\ argPatterns = << <<"a">>, <<" ">>, <<"*", ".", "a">> >>
    /\ retMatched = <<TRUE>>
    /\ ~IsException(argHost, <<argPatterns[1]>>)
    /\ ~IsException(argHost, <<argPatterns[2]>>)

\* The pattern is empty once IsException has normalized it (line 191).
IsBlankPattern(p) == TrimSpace(TrimSuffix(p, <<"/">>)) = <<>>

\* C27: IsException is false for every pattern list when the host is empty
\* or only whitespace, false for every host when the list is empty, and a
\* pattern that is empty after normalization matches no host: a list of
\* such patterns gives false, and the result of a list is that of its
\* first pattern alone when all the others are empty.
C27_EmptyInputs ==
    Returned =>
        LET result == retMatched[1]
            n == Len(argPatterns)
        IN  /\ TrimSpace(argHost) = <<>> => ~result
            /\ n = 0 => ~result
            /\ (\A i \in 1..n : IsBlankPattern(argPatterns[i])) => ~result
            /\ (n > 0 /\ \A i \in 2..n : IsBlankPattern(argPatterns[i]))
                  => result = IsException(argHost, <<argPatterns[1]>>)

\* The host ':p' (empty name, port p) against blank patterns: no bypass.
C27_Witness ==
    /\ Returned
    /\ argHost = <<":", "p">>
    /\ argPatterns = << <<" ", "/">>, <<" ">> >>
    /\ retMatched = <<FALSE>>

(***************************************************************************)
(* Bypass, the caller of IsException in package proxy, with what it writes *)
(* to the log, on lists that hold wildcard patterns regexp cannot compile. *)
(***************************************************************************)

WarnPatterns ==
    { <<"a">>, <<"*", ".", "a">>, <<"*", InvalidByte>>, <<"*", ".", InvalidByte, "a">> }

WarnLists == UNION {[1..k -> WarnPatterns] : k \in 0..MaxPatterns}

WarnInit ==
    /\ cfg = [UpstreamProxy |-> UpstreamAddr, ProxyAuth |-> <<>>, ProxyExceptions |-> <<>>]
    /\ ProxyIdle
    /\ argHost \in ListHosts
    /\ argPatterns \in WarnLists
    /\ retMatched = <<>>
    /\ call = [fn |-> "Bypass", arg |-> <<>>, ret |-> <<>>, done |-> FALSE, log |-> <<>>]

\* proxy.go 110-112: Bypass returns IsException's result and writes nothing
\* to the log; IsException (config.go 184-215) has no logger and returns
\* only the boolean.
CallBypass ==
    /\ call.fn = "Bypass"
    /\ ~call.done
    /\ retMatched' = <<Bypass(argHost, argPatterns)>>
    /\ call' = [call EXCEPT !.done = TRUE]
    /\ UNCHANGED <<cfg, handlerVars, connVars, streamVars, pipeVars, argHost, argPatterns,
                   instance>>

WarnNext == CallBypass

WarnSpec == WarnInit /\ [][WarnNext]_vars

\* regexp cannot compile the expression made from this wildcard pattern.
CompileFails(p) ==
    /\ ContainsChar(p, "*")
    /\ RegexpMatchString(wildcardPatternToRegex(p), <<>>).err

\* The patterns of the list that compile, in order.
RECURSIVE Compiling(_)
Compiling(list) ==
    IF list = <<>> THEN <<>>
    ELSE IF CompileFails(Head(list)) THEN Compiling(Tail(list))
    ELSE <<Head(list)>> \o Compiling(Tail(list))

\* The loop reached a pattern that does not compile: the host has
\* candidates and no pattern in front of it matched.
CompileFailed ==
    /\ TrimSpace(argHost) # <<>>
    /\ \E i \in 1..Len(argPatterns) :
          /\ CompileFails(argPatterns[i])
          /\ ~IsException(argHost, SubSeq(argPatterns, 1, i - 1))

\* C28 as stated: a wildcard pattern that fails to compile is skipped
\* without aborting the match, so that the result is that of the remaining
\* patterns, and the caller logs a warning for it.
C28_AsStated ==
    (call.fn = "Bypass" /\ call.done)
        => /\ retMatched[1] = IsException(argHost, Compiling(argPatterns))
           /\ CompileFailed => call.log # <<>>

\* The part of C28 that holds: the pattern is skipped, the others decide.
SkipsFailingPattern ==
    (call.fn = "Bypass" /\ call.done)
        => retMatched[1] = IsException(argHost, Compiling(argPatterns))

\* A pattern in normalized form: no surrounding whitespace, no trailing '/'.
IsNormalized(p) == TrimSpace(p) = p /\ ~HasSuffix(p, <<"/">>)

Blanks == { <<>>, <<" ">> }

\* The pattern with whitespace around it and one '/' appended, whitespace
\* behind the '/' included.
Decorated(p) == { pre \o p \o <<"/">> \o post : pre \in Blanks, post \in Blanks }

\* C26 as stated: a pattern is matched in its normalized form, whitespace
\* trimmed and then one trailing '/' stripped: IsException gives the same
\* result for a pattern and for that pattern with whitespace added around it
\* and a single '/' appended, also when whitespace follows the '/'.
C26_AsStated ==
    (Returned /\ Len(argPatterns) = 1 /\ IsNormalized(argPatterns[1]))
        => \A v \in Decorated(argPatterns[1]) : IsException(argHost, <<v>>) = retMatched[1]

(***************************************************************************)
(* GetExceptions on its own: called on single items of every shape (with   *)
(* or without scheme, host, port, path, padding) and on comma-separated    *)
(* lists of a few items, blank ones among them.                            *)
(***************************************************************************)
MaxItems == 3

Schemes == { <<>>, Http, Https }

ItemHosts ==
    { <<>>, <<"a">>, <<"*", ".", "a">>, <<"a", " ", "b">>, <<"[", ":", ":", "a", "]">> }

ItemPorts == { <<>>, <<":", "8">>, <<":", "p">> }

ItemTails == { <<>>, <<"/">>, <<"/", "/">>, <<"/", "b">> }

Pads == { <<>>, <<" ">> }

SingleItems ==
    { pad \o sch \o h \o port \o tail \o pad :
          pad \in Pads, sch \in Schemes, h \in ItemHosts, port \in ItemPorts, tail \in ItemTails }

ListItems ==
    { <<>>, <<" ">>, <<"a">>, <<" ", "b", "/", " ">>, Http \o <<"a", ":", "8", "/">> }

RECURSIVE Join(_)
Join(items) ==
    IF Len(items) = 0 THEN <<>>
    ELSE IF Len(items) = 1 THEN items[1]
    ELSE items[1] \o <<",">> \o Join(Tail(items))

ItemLists == { Join(l) : l \in UNION { [1..k -> ListItems] : k \in 0..MaxItems } }

ParseInputs == SingleItems \cup ItemLists

ParseInit ==
    /\ cfg = [UpstreamProxy |-> UpstreamAddr, ProxyAuth |-> <<>>, ProxyExceptions |-> <<>>]
    /\ ProxyIdle
    /\ argHost = <<>> /\ argPatterns = <<>> /\ retMatched = <<>>
    /\ \E in \in ParseInputs :
          call = [fn |-> "GetExceptions", arg |-> in, ret |-> <<>>, done |-> FALSE]

\* The call GetExceptions(call.arg).
CallGetExceptions ==
    /\ call.fn = "GetExceptions"
    /\ ~call.done
    /\ call' = [call EXCEPT !.ret = GetExceptions(call.arg), !.done = TRUE]
    /\ UNCHANGED <<cfg, handlerVars, connVars, streamVars, pipeVars, argHost, argPatterns,
                   retMatched, instance>>

ParseNext == CallGetExceptions

ParseSpec == ParseInit /\ [][ParseNext]_vars

(***************************************************************************)
(* What GetExceptions is claimed to return, stated on the input string.    *)
(***************************************************************************)

Parsed == call.fn = "GetExceptions" /\ call.done

\* The positions of the commas of s, and the k-th of them (0 for k = 0, one
\* past the end for the one after the last).
Commas(s) == { i \in 1..Len(s) : s[i] = "," }

CommaAt(s, k) ==
    IF k = 0 THEN 0
    ELSE IF k > Cardinality(Commas(s)) THEN Len(s) + 1
    ELSE CHOOSE i \in Commas(s) : Cardinality({ j \in Commas(s) : j < i }) = k - 1

\* The comma-separated items of s, in order, and those that are not blank,
\* trimmed.
ItemsOf(s) ==
    [k \in 1..(Cardinality(Commas(s)) + 1) |->
        SubSeq(s, CommaAt(s, k - 1) + 1, CommaAt(s, k) - 1)]

IsNonBlank(item) == TrimSpace(item) # <<>>

NonBlankItems(s) ==
    LET kept == SelectSeq(ItemsOf(s), IsNonBlank)
    IN  [k \in 1..Len(kept) |-> TrimSpace(kept[k])]

HasScheme(t) == HasPrefix(t, Http) \/ HasPrefix(t, Https)

\* What follows the scheme of an item, and the part of it before the path.
SchemeRemoved(t) ==
    IF HasPrefix(t, Https) THEN SubSeq(t, Len(Https) + 1, Len(t))
    ELSE SubSeq(t, Len(Http) + 1, Len(t))

HostAndPort(t) ==
    LET r == SchemeRemoved(t)
    IN  IF ContainsChar(r, "/") THEN SubSeq(r, 1, IndexByte(r, "/") - 1) ELSE r

\* A host with an optional port as a URL may carry it: not empty, without
\* white space, and with nothing but digits behind the colon that ends the
\* host (the last colon; behind the closing bracket of a bracketed host).
WellFormedHostPort(h) ==
    /\ h # <<>>
    /\ \A i \in 1..Len(h) : ~IsSpace(h[i])
    /\ IF h[1] = "["
       THEN \E i \in 1..Len(h) :
               /\ h[i] = "]"
               /\ \A j \in (i + 1)..Len(h) : h[j] # "]"
               /\ (i < Len(h) => h[i + 1] = ":")
               /\ \A j \in (i + 2)..Len(h) : IsDigit(h[j])
       ELSE \A i \in 1..Len(h) :
               (h[i] = ":" /\ \A j \in (i + 1)..Len(h) : h[j] # ":")
                   => \A j \in (i + 1)..Len(h) : IsDigit(h[j])

\* C12 as stated: GetExceptions returns, in input order, one entry for every
\* non-blank comma-separated item: the trimmed item with a leading http:// or
\* https:// removed, keeping the host and its port (read either as all that
\* follows the scheme or as what follows it up to the path), and one trailing
\* '/' removed; blank items give no entry, the empty input the empty list.
C12_AsStated ==
    Parsed =>
        LET items == NonBlankItems(call.arg)
        IN  /\ Len(call.ret) = Len(items)
            /\ \A k \in 1..Len(items) :
                  IF HasScheme(items[k])
                  THEN call.ret[k] \in { TrimSuffix(SchemeRemoved(items[k]), <<"/">>),
                                         TrimSuffix(HostAndPort(items[k]), <<"/">>) }
                  ELSE call.ret[k] = TrimSuffix(items[k], <<"/">>)

\* C12, amended: GetExceptions returns, in input order, one entry for every
\* non-blank comma-separated item: the trimmed item, replaced by its host and
\* port (scheme and path dropped) when it starts with http:// or https:// and
\* what follows up to the path is a well-formed host with optional port, kept
\* whole with its scheme otherwise; and then one trailing '/' removed.  Blank
\* items give no entry, the empty input the empty list.
C12_ParseList ==
    Parsed =>
        LET items == NonBlankItems(call.arg)
        IN  /\ Len(call.ret) = Len(items)
            /\ \A k \in 1..Len(items) :
                  call.ret[k] =
                      TrimSuffix(IF HasScheme(items[k]) /\ WellFormedHostPort(HostAndPort(items[k]))
                                 THEN HostAndPort(items[k])
                                 ELSE items[k],
                                 <<"/">>)

\* "a, ,http://a:8/, b/ " gives a, a:8 and b: the blank item is dropped, scheme
\* and slash removed, the order kept.
C12_Witness ==
    /\ Parsed
    /\ call.arg = Join(<< <<"a">>, <<" ">>, Http \o <<"a", ":", "8", "/">> >>)
    /\ call.ret = << <<"a">>, <<"a", ":", "8">> >>

(***************************************************************************)
(* GetExceptions applied to its own result: the list it returned is joined *)
(* with commas, as the PROXY_EXCEPTIONS value lists its items, and parsed  *)
(* again.                                                                  *)
(***************************************************************************)

ReparseInit ==
    /\ cfg = [UpstreamProxy |-> UpstreamAddr, ProxyAuth |-> <<>>, ProxyExceptions |-> <<>>]
    /\ ProxyIdle
    /\ argHost = <<>> /\ argPatterns = <<>> /\ retMatched = <<>>
    /\ \E in \in ParseInputs :
          call = [fn |-> "GetExceptions", arg |-> in, ret |-> <<>>, done |-> FALSE,
                  again |-> <<>>, redone |-> FALSE]

\* The call GetExceptions(strings.Join(call.ret, ",")).
CallGetExceptionsAgain ==
    /\ call.fn = "GetExceptions"
    /\ call.done
    /\ ~call.redone
    /\ call' = [call EXCEPT !.again = GetExceptions(Join(call.ret)), !.redone = TRUE]
    /\ UNCHANGED <<cfg, handlerVars, connVars, streamVars, pipeVars, argHost, argPatterns,
                   retMatched, instance>>

ReparseNext == CallGetExceptions \/ CallGetExceptionsAgain

ReparseSpec == ReparseInit /\ [][ReparseNext]_vars

Reparsed == call.fn = "GetExceptions" /\ call.done /\ call.redone

\* C29 as stated: parsing is idempotent: for every input, the list that
\* GetExceptions returns, joined with commas and parsed again, gives the same
\* list.
C29_AsStated == Reparsed => call.again = call.ret

\* An entry the second parse leaves alone: not empty, no white space around
\* it, no '/' at its end.
IsStableEntry(e) == e # <<>> /\ TrimSpace(e) = e /\ ~HasSuffix(e, <<"/">>)

\* The second parse changes nothing when the first gave stable entries only.
StableListReparses ==
    (Reparsed /\ \A k \in 1..Len(call.ret) : IsStableEntry(call.ret[k]))
        => call.again = call.ret

(***************************************************************************)
(* LoadConfig on its own: called in environments that set a few keys, or   *)
(* all of them, to values of every kind: durations and counts with and     *)
(* without sign and unit, zero, blank, padded and malformed ones.          *)
(***************************************************************************)
MaxSetKeys == 1

\* The settings of the timeout set: field, environment key, default.
Settings ==
    { [field |-> "ServerReadHeaderTimeout", key |-> "SERVER_READ_HEADER_TIMEOUT", default |-> defaultServerReadHeaderTimeout, bytes |-> FALSE],
      [field |-> "ServerReadTimeout", key |-> "SERVER_READ_TIMEOUT", default |-> defaultServerReadTimeout, bytes |-> FALSE],
      [field |-> "ServerWriteTimeout", key |-> "SERVER_WRITE_TIMEOUT", default |-> defaultServerWriteTimeout, bytes |-> FALSE],
      [field |-> "ServerIdleTimeout", key |-> "SERVER_IDLE_TIMEOUT", default |-> defaultServerIdleTimeout, bytes |-> FALSE],
      [field |-> "ServerMaxHeaderBytes", key |-> "SERVER_MAX_HEADER_BYTES", default |-> defaultServerMaxHeaderBytes, bytes |-> TRUE],
      [field |-> "ClientRequestTimeout", key |-> "CLIENT_REQUEST_TIMEOUT", default |-> defaultClientRequestTimeout, bytes |-> FALSE],
      [field |-> "TransportDialTimeout", key |-> "TRANSPORT_DIAL_TIMEOUT", default |-> defaultTransportDialTimeout, bytes |-> FALSE],
      [field |-> "TransportKeepAlive", key |-> "TRANSPORT_KEEP_ALIVE", default |-> defaultTransportKeepAlive, bytes |-> FALSE],
      [field |-> "TransportTLSHandshakeTimeout", key |-> "TRANSPORT_TLS_HANDSHAKE_TIMEOUT", default |-> defaultTransportTLSHandshakeTimeout, bytes |-> FALSE],
      [field |-> "TransportResponseHeaderTimeout", key |-> "TRANSPORT_RESPONSE_HEADER_TIMEOUT", default |-> defaultTransportResponseHeaderTimeout, bytes |-> FALSE],
      [field |-> "TransportExpectContinueTimeout", key |-> "TRANSPORT_EXPECT_CONTINUE_TIMEOUT", default |-> defaultTransportExpectContinueTimeout, bytes |-> FALSE],
      [field |-> "TransportIdleConnTimeout", key |-> "TRANSPORT_IDLE_CONN_TIMEOUT", default |-> defaultTransportIdleConnTimeout, bytes |-> FALSE],
      [field |-> "TunnelConnectReadWriteTimeout", key |-> "TUNNEL_CONNECT_READ_WRITE_TIMEOUT", default |-> defaultTunnelConnectReadWriteTimeout, bytes |-> FALSE] }

EnvKeys ==
    { st.key : st \in Settings }
    \cup {"UPSTREAM_PROXY", "LISTEN_ADDR", "PROXY_AUTH", "PROXY_EXCEPTIONS"}

\* The values: a sign, a number and a unit written one after the other, and
\* some texts that are no number at all.
Numeral(n) == CASE n = 0 -> <<"0">> [] n = 5 -> <<"5">> [] n = 25 -> <<"2", "5">>

SignText(sg) == CASE sg = 1 -> <<>> [] sg = 2 -> <<"+">> [] sg = 3 -> <<"-">>

Written ==
    { [text |-> SignText(sg) \o Numeral(n) \o unit, junk |-> FALSE, sign |-> sg, n |-> n,
       unit |-> unit] :
          sg \in {1, 2, 3}, n \in {0, 5, 25},
          unit \in { <<>>, <<"s">>, <<"m", "s">>, <<"m">>, <<"x">> } }

Junk ==
    { [text |-> t, junk |-> TRUE, sign |-> 1, n |-> 0, unit |-> <<>>] :
          t \in { <<>>, <<" ">>, <<"x">>, <<"s">>, <<"+">>, <<" ", "5", "s">>, <<"5", "s", " ">>,
                  <<" ", "5">> } }

Literals == Written \cup Junk

Unset == [k \in EnvKeys |-> <<>>]

Environments ==
    { [k \in EnvKeys |-> IF k \in K THEN <<l.text>> ELSE <<>>] :
          K \in { K \in SUBSET EnvKeys : Cardinality(K) <= MaxSetKeys }, l \in Literals }
    \cup
    { [k \in EnvKeys |-> IF k = k1 THEN <<l1.text>> ELSE <<l2.text>>] :
          k1 \in EnvKeys, l1 \in {l \in Written : l.n = 25 /\ l.sign = 1},
          l2 \in {l \in Written : l.n = 5} }

LoadInit ==
    /\ cfg = [UpstreamProxy |-> UpstreamAddr, ProxyAuth |-> <<>>, ProxyExceptions |-> <<>>]
    /\ ProxyIdle
    /\ argHost = <<>> /\ argPatterns = <<>> /\ retMatched = <<>>
    /\ \E env \in Environments :
          call = [fn |-> "LoadConfig", arg |-> env, ret |-> <<>>, done |-> FALSE]

\* The call LoadConfig() in the environment call.arg.
CallLoadConfig ==
    /\ call.fn = "LoadConfig"
    /\ ~call.done
    /\ call' = [call EXCEPT !.ret = LoadConfig(call.arg), !.done = TRUE]
    /\ UNCHANGED <<cfg, handlerVars, connVars, streamVars, pipeVars, argHost, argPatterns,
                   retMatched, instance>>

LoadNext == CallLoadConfig

LoadSpec == LoadInit /\ [][LoadNext]_vars

(***************************************************************************)
(* What LoadConfig is claimed to return, stated on the written values.     *)
(***************************************************************************)

Loaded == call.fn = "LoadConfig" /\ call.done

TheLiteral(text) == CHOOSE l \in Literals : l.text = text

SignOf(l) == IF l.sign = 3 THEN 0 - 1 ELSE 1

\* The text denotes a duration: a number with a unit of time, or a bare zero.
DenotesDuration(l) ==
    ~l.junk /\ (l.unit \in { <<"s">>, <<"m", "s">>, <<"m">> } \/ (l.unit = <<>> /\ l.n = 0))

\* The duration in milliseconds.
DurationOf(l) ==
    SignOf(l) * l.n * (CASE l.unit = <<"s">> -> 1000 [] l.unit = <<"m", "s">> -> 1
                         [] l.unit = <<"m">> -> 60000 [] OTHER -> 0)

\* The text denotes a count: a number without unit.
DenotesCount(l) == ~l.junk /\ l.unit = <<>>

CountOf(l) == SignOf(l) * l.n

\* The value a setting is claimed to have in an environment.
Claimed(env, st) ==
    IF env[st.key] = <<>> THEN st.default
    ELSE LET l == TheLiteral(env[st.key][1])
         IN  IF st.bytes
             THEN IF DenotesCount(l) /\ CountOf(l) > 0 THEN CountOf(l) ELSE st.default
             ELSE IF DenotesDuration(l) /\ DurationOf(l) > 0 THEN DurationOf(l) ELSE st.default

\* C13: each duration and byte-count setting of the loaded configuration
\* equals the override of its own environment key when that is written as a
\* strictly positive duration (count), and its default when the key is unset
\* or its value is blank, malformed, zero or negative, whatever the other
\* keys are set to.
C13_TimeoutDefaulting ==
    Loaded => \A st \in Settings : call.ret[st.field] = Claimed(call.arg, st)

\* SERVER_READ_TIMEOUT=25s sets the read timeout to 25 s and nothing else.
C13_Witness ==
    /\ Loaded
    /\ call.arg["SERVER_READ_TIMEOUT"] = << <<"2", "5", "s">> >>
    /\ call.arg["SERVER_WRITE_TIMEOUT"] = <<>>
    /\ call.ret.ServerReadTimeout = 25 * Second
    /\ call.ret.ServerWriteTimeout = defaultServerWriteTimeout

(***************************************************************************)
(* What the matcher is claimed to compute, stated without the code:        *)
(* declaratively, on the host and on the pattern.                          *)
(***************************************************************************)

NoBracket(s) == ~ContainsChar(s, "[") /\ ~ContainsChar(s, "]")

\* A string without its enclosing brackets, when it has them around something.
Unbracket(s) ==
    IF Len(s) > 2 /\ s[1] = "[" /\ s[Len(s)] = "]" THEN SubSeq(s, 2, Len(s) - 1) ELSE s

\* The hosts h such that s reads "h:port" or "[h]:port".
PortRemoved(s) ==
    { SubSeq(s, 1, i - 1) : i \in { i \in 1..Len(s) :
          /\ s[i] = ":"
          /\ NoBracket(s)
          /\ ~ContainsChar(SubSeq(s, 1, i - 1), ":")
          /\ ~ContainsChar(SubSeq(s, i + 1, Len(s)), ":") } }
    \cup
    { SubSeq(s, 2, i - 2) : i \in { i \in 3..Len(s) :
          /\ s[i] = ":"
          /\ s[1] = "["
          /\ s[i - 1] = "]"
          /\ NoBracket(SubSeq(s, 2, i - 2))
          /\ NoBracket(SubSeq(s, i + 1, Len(s)))
          /\ ~ContainsChar(SubSeq(s, i + 1, Len(s)), ":") } }

\* The same hosts, with the brackets kept where the host was written with them.
PortRemovedAsWritten(s) ==
    PortRemoved(s) \cup { <<"[">> \o h \o <<"]">> : h \in { h \in PortRemoved(s) : s[1] = "[" } }

\* The pattern as the matcher takes it: one trailing '/' and the surrounding
\* whitespace removed.
Normalized(pattern) == TrimSpace(TrimSuffix(pattern, <<"/">>))

\* s equals the pattern p with each '*' replaced by some character sequence,
\* every other character of p standing for itself, ignoring case.
RECURSIVE Glob(_, _)
Glob(p, s) ==
    IF p = <<>> THEN s = <<>>
    ELSE IF Head(p) = "*"
    THEN \E k \in 0..Len(s) : Glob(Tail(p), SubSeq(s, k + 1, Len(s)))
    ELSE s # <<>> /\ ToLower(Head(p)) = ToLower(Head(s)) /\ Glob(Tail(p), Tail(s))

\* The matches claimed for a pattern without '*' (P) and for one with '*',
\* against a host H, both already normalized.
ExactMatches(P, H) ==
    \/ EqualFold(Unbracket(P), Unbracket(H))
    \/ \E h \in PortRemoved(H) : EqualFold(Unbracket(P), TrimSpace(h))

GlobMatches(P, H) == Glob(P, H) \/ \E h \in PortRemoved(H) : Glob(P, h)

\* The host matches at least one pattern of the exceptions.
Excepted(host, exceptions) ==
    \E n \in 1..Len(exceptions) :
        LET P == Normalized(exceptions[n])
            H == TrimSpace(host)
        IN  /\ P # <<>>
            /\ H # <<>>
            /\ IF ContainsChar(P, "*") THEN GlobMatches(P, H) ELSE ExactMatches(P, H)

Called == retMatched # <<>>

TheHost == TrimSpace(argHost)

ThePattern == Normalized(argPatterns[1])

\* C9 as stated: for a pattern without '*', IsException(host, [pattern]) is true
\* if and only if the pattern equals, ignoring case, the whole host string or,
\* when the host carries a port, the host with its port removed (read either
\* with or without the brackets the host was written with).
C9_AsStated ==
    (Called /\ ~ContainsChar(ThePattern, "*") /\ ThePattern # <<>> /\ TheHost # <<>>)
        => (retMatched[1] <=>
              \/ EqualFold(ThePattern, TheHost)
              \/ \E h \in PortRemovedAsWritten(TheHost) : EqualFold(ThePattern, h))

\* C9, amended: for a pattern without '*', IsException(host, [pattern]) is true
\* if and only if the pattern, with the enclosing brackets of a bracketed
\* literal removed, equals, ignoring case, the whole host string, likewise
\* without its enclosing brackets, or, when the host carries a port, the host
\* with its port removed.  Hence, between a host and a pattern written without
\* brackets, a pattern without a port matches the host on every port, and a
\* pattern with a port matches only the destination with that host and port.
C9_ExactMatch ==
    (Called /\ ~ContainsChar(ThePattern, "*") /\ ThePattern # <<>> /\ TheHost # <<>>)
        => /\ retMatched[1] <=> ExactMatches(ThePattern, TheHost)
           /\ (NoBracket(TheHost) /\ NoBracket(ThePattern) /\ ~ContainsChar(ThePattern, ":"))
                => \A h \in PortRemoved(TheHost) :
                      EqualFold(ThePattern, TrimSpace(h)) => retMatched[1]
           /\ (NoBracket(TheHost) /\ NoBracket(ThePattern) /\ ContainsChar(ThePattern, ":"))
                => (retMatched[1] => EqualFold(ThePattern, TheHost))

\* A host with a port is matched by a pattern that names the host alone.
C9_Witness ==
    /\ Called
    /\ retMatched[1]
    /\ argPatterns = << <<"b", ".", "a">> >>
    /\ argHost = <<"B", ".", "a", ":", "p">>

\* C10: for a pattern containing '*', IsException is true if and only if the
\* whole host string, or the host with its port removed, equals the pattern
\* with each '*' replaced by some (possibly empty) character sequence,
\* ignoring case, every other pattern character (the dot too) matching only
\* itself.
C10_WildcardMatch ==
    (Called /\ ContainsChar(ThePattern, "*") /\ TheHost # <<>>)
        => (retMatched[1] <=> GlobMatches(ThePattern, TheHost))

\* The IPv6 literal of the matcher's inputs, ::a, bare and in brackets.
IPv6Literal == <<":", ":", "a">>

IPv6Bracketed == <<"[">> \o IPv6Literal \o <<"]">>

\* C11: each of the patterns '[::a]' and '::a' matches each of the
\* destinations '[::a]:p' (any port), '[::a]' and '::a' (as '[::1]' and '::1'
\* match '[::1]:8443', '[::1]' and '::1').
C11_IPv6Interchangeable ==
    (/\ Called
     /\ argPatterns[1] \in {IPv6Literal, IPv6Bracketed}
     /\ argHost \in {IPv6Literal, IPv6Bracketed}
                     \cup {IPv6Bracketed \o <<":">> \o port : port \in Ports})
        => retMatched[1]

\* The bare pattern '::a' matched the bracketed destination with a port.
C11_Witness ==
    /\ Called
    /\ retMatched[1]
    /\ argPatterns = <<IPv6Literal>>
    /\ argHost = IPv6Bracketed \o <<":", "p">>

\* '*.a' matches 'B.a:p' (as '*.example.com' matches 'API.EXAMPLE.COM:443').
C10_Witness ==
    /\ Called
    /\ retMatched[1]
    /\ argPatterns = << <<"*", ".", "a">> >>
    /\ argHost = <<"B", ".", "a", ":", "p">>

Next ==
    \/ \E m \in Methods, h \in ReqHosts, k \in {"hijacker", "plain", "hijackFails"} :
          handleRequestWithTransports(m, h, k)
    \/ HandleHttps
    \/ handleHttpWithTransports
    \/ ProxyRequest
    \/ CopyResponse
    \/ CopyBody
    \/ EstablishTunnel
    \/ DialDirect
    \/ TunnelFailed
    \/ DialUpstream
    \/ SetDeadline
    \/ WriteConnect
    \/ ReadResponse
    \/ CheckStatus
    \/ Hijack
    \/ Reply
    \/ Pipe
    \/ PipeStep
    \/ Peers

Spec == Init /\ [][Next]_vars

(***************************************************************************)
(* The claims about one request through the proxy.                         *)
(***************************************************************************)

IsConnect == req.Method = "CONNECT"

IsForward == req.Method \notin {"", "CONNECT"}

ReqExcepted == Excepted(req.Host, cfg.ProxyExceptions)

RoundTrips == stats.tripDirect + stats.tripUpstream

\* The steps of the forward path, and those behind the round trip.
ForwardSteps == {"handleHttp", "ProxyRequest", "CopyResponse", "CopyBody"}

AfterRoundTrip == pc \in {"CopyResponse", "CopyBody", "done"}

RelayOff == g1.pc = "off" /\ g2.pc = "off"

IsPrefix(s, t) == Len(s) <= Len(t) /\ s = SubSeq(t, 1, Len(s))

\* C1: for every request that is not a CONNECT, the forward path uses the
\* upstream transport if and only if the request's host matches no exception
\* pattern, and the direct transport if and only if it matches at least one;
\* the one round trip of the request goes over that transport, never over
\* both and never over neither.
C1_ForwardTransport ==
    (IsForward /\ pc # "handleHttp")
        => /\ transport = (IF ReqExcepted THEN "direct" ELSE "upstream")
           /\ pc = "ProxyRequest" => RoundTrips = 0
           /\ AfterRoundTrip =>
                 /\ stats.tripDirect = (IF ReqExcepted THEN 1 ELSE 0)
                 /\ stats.tripUpstream = (IF ReqExcepted THEN 0 ELSE 1)

\* A GET to a host no pattern matches went to the upstream; never directly.
C1_Witness ==
    /\ req.Method = "GET"
    /\ pc = "done"
    /\ cfg.ProxyExceptions # <<>>
    /\ ~ReqExcepted
    /\ stats.tripUpstream = 1
    /\ stats.tripDirect = 0

\* C2 as stated: when a CONNECT request has been handled, if the target
\* matches an exception pattern the proxy has dialed the target directly, made
\* no connection to the upstream and sent no nested CONNECT; if it matches
\* none, the proxy has sent exactly one nested CONNECT to the upstream and has
\* not dialed the target.
C2_AsStated ==
    (IsConnect /\ pc = "done")
        => IF ReqExcepted
           THEN stats.dialTarget = 1 /\ stats.dialUpstream = 0 /\ stats.connects = 0
           ELSE stats.connects = 1 /\ stats.dialTarget = 0

\* The steps of DialViaUpstream before the nested CONNECT is on the wire.
BeforeDial == pc \in {"EstablishTunnel", "DialTimeout"}

BeforeConnectSent == BeforeDial \/ pc \in {"SetDeadline", "WriteConnect"}

\* C2, amended: for a CONNECT request, if the target matches an exception
\* pattern the proxy dials the target directly (once), makes no connection to
\* the upstream and sends no nested CONNECT; if it matches none, the proxy
\* dials the upstream (once), never the target, and sends at most one nested
\* CONNECT: exactly one once the dial, setting the deadline and the write of
\* the CONNECT have succeeded, none when one of them failed.
C2_ConnectRouting ==
    (IsConnect /\ pc # "HandleHttps")
        => IF ReqExcepted
           THEN /\ stats.dialUpstream = 0
                /\ stats.connects = 0
                /\ stats.dialTarget = (IF BeforeDial THEN 0 ELSE 1)
           ELSE /\ stats.dialTarget = 0
                /\ stats.dialUpstream = (IF BeforeDial THEN 0 ELSE 1)
                /\ stats.connects =
                      (IF BeforeConnectSent
                             \/ err \in {ErrUpstreamDial, ErrSetDeadline, ErrSendConnect}
                       THEN 0 ELSE 1)

\* A tunnel through the upstream: one nested CONNECT, the target never dialed.
C2_Witness ==
    /\ IsConnect
    /\ pc = "done"
    /\ ~ReqExcepted
    /\ w.hijacked
    /\ stats.connects = 1
    /\ stats.dialUpstream = 1
    /\ stats.dialTarget = 0

\* The reply of a successful CONNECT, as the client is to receive it.
ConnectionEstablished == "HTTP/1.1 200 Connection Established\r\n\r\n"

\* C3: the client of a tunnel receives the line "HTTP/1.1 200 Connection
\* Established" followed by a blank line exactly once, first of all it
\* receives, with no other header or HTTP response; the line is written only
\* with the backend connection open (through the upstream: accepted with 200)
\* and the client connection hijacked, and before any relayed byte.
C3_ConnectReply ==
    /\ \A i \in 1..Len(toClient) : toClient[i] = ConnectionEstablished => i = 1
    /\ toClient # <<>> =>
          /\ toClient[1] = ConnectionEstablished
          /\ w.hijacked
          /\ w.written = <<>>
          /\ err = "nil"
          /\ backend.state # "none"
          /\ backend.peer = "upstream" => resp = 200
          /\ pc \in {"Pipe", "done"}
    /\ pc = "Pipe" =>
          /\ backend.state = "open"
          /\ w.hijacked
          /\ RelayOff
          /\ c2p.peer # "reset" => toClient = <<ConnectionEstablished>>
    /\ ~RelayOff /\ c2p.peer # "reset" =>
          toClient # <<>> /\ toClient[1] = ConnectionEstablished

\* The client has received the reply and, behind it, a relayed byte.
C3_Witness ==
    /\ Len(toClient) = 2
    /\ toClient[1] = ConnectionEstablished
    /\ toClient[2] = Byte("b", 1)
    /\ w.hijacked

\* What the relay has delivered to the client, behind the reply.
RelayedToClient ==
    IF toClient # <<>> /\ toClient[1] = ConnectionEstablished THEN Tail(toClient) ELSE toClient

\* C4 as stated: the bytes delivered to the backend are a prefix of the bytes
\* the client sent after the 200 reply (checked for clients that sent nothing
\* before it), and the bytes delivered to the client are a prefix of the bytes
\* the backend sent: nothing added, reordered or skipped.
C4_AsStated ==
    /\ c2p.early = 0 => IsPrefix(toBackend, Stream("c", c2p.sent))
    /\ IsPrefix(RelayedToClient, Stream("b", b2p.sent))

\* C6: when establishing the backend connection fails (the direct dial, the
\* dial to the upstream, or the nested CONNECT handshake), the client
\* receives 503 Service Unavailable as an HTTP response, its connection is
\* never hijacked, no 200 Connection Established is written and no relay
\* starts.
C6_BackendFailure ==
    err \in DialErrors
        => /\ pc \in {"TunnelFailed", "done"}
           /\ ~w.hijacked
           /\ toClient = <<>>
           /\ toBackend = <<>>
           /\ RelayOff
           /\ backend.state # "open"
           /\ w.written = (IF pc = "done" THEN <<503>> ELSE <<>>)

\* The upstream refused the nested CONNECT and the client got 503.
C6_Witness ==
    /\ IsConnect
    /\ pc = "done"
    /\ err = ErrRejected
    /\ resp = 403
    /\ w.written = <<503>>
    /\ ~w.hijacked

\* C7: the nested CONNECT through the upstream is accepted if and only if the
\* status of the upstream's response is exactly 200; every other status,
\* other 2xx codes too, makes DialViaUpstream fail, and the client is sent
\* the 200 Connection Established reply only when the upstream answered 200.
C7_StatusExactly200 ==
    /\ (resp # 0 /\ pc # "CheckStatus") =>
          /\ resp = 200 <=> err # ErrRejected
          /\ resp # 200 =>
                /\ pc \in {"TunnelFailed", "done"}
                /\ ~w.hijacked
                /\ toClient = <<>>
                /\ RelayOff
    /\ (useUpstream = "yes" /\ (pc \in {"Hijack", "Reply", "Pipe"} \/ w.hijacked)) =>
          resp = 200 /\ upReply = 200
    /\ (backend.peer = "upstream" /\ toClient # <<>>) => upReply = 200

\* The upstream answered 204, another 2xx code, and the dial failed.
C7_Witness ==
    /\ pc = "done"
    /\ resp = 204
    /\ err = ErrRejected
    /\ w.written = <<503>>

\* C8: every request is handled by exactly one path, chosen by its method
\* alone: CONNECT goes to the tunnel path and never makes an HTTP round trip;
\* every other method goes to the forward path and never dials a raw backend
\* connection or hijacks the client connection.
C8_DispatchByMethod ==
    /\ IsConnect =>
          /\ pc \notin ForwardSteps
          /\ transport = "none"
          /\ RoundTrips = 0
          /\ pc = "done" => stats.dialTarget + stats.dialUpstream = 1
    /\ IsForward =>
          /\ pc \in ForwardSteps \cup {"done"}
          /\ useUpstream = "unset"
          /\ backend = NoConn
          /\ stats.dialTarget = 0 /\ stats.dialUpstream = 0 /\ stats.connects = 0
          /\ ~w.hijacked
          /\ toClient = <<>>
          /\ RelayOff
          /\ pc = "done" => RoundTrips = 1

\* A request whose method is the word connect in lower case was forwarded.
C8_Witness ==
    /\ req.Method = "connect"
    /\ pc = "done"
    /\ RoundTrips = 1
    /\ backend = NoConn
    /\ ~w.hijacked

\* client.Do returned an error: no response, err set.
RoundTripFailed == IsForward /\ fwd.err /\ fwd.resp = NoResponse

\* The headers http.Error sets: none of an upstream response.
ErrorHeaders ==
    [NoHeader EXCEPT !["Content-Type"] = <<"text/plain; charset=utf-8">>,
                     !["X-Content-Type-Options"] = <<"nosniff">>]

\* C15: when the outbound round trip of a forwarded request fails (client.Do
\* returns an error, the expiry of the client timeout included), the client
\* receives exactly one response, with status 502 and the text Bad Gateway,
\* and no header or body byte of an upstream response is written.
C15_RoundTripFailure ==
    RoundTripFailed
        => /\ pc = "done"
           /\ w.written = <<502>>
           /\ w.sentHeader = ErrorHeaders
           /\ w.header["Set-Cookie"] = <<>>
           /\ w.body = <<"Bad Gateway\n">>
           /\ fwd.copied = 0

\* The texts a message may be framed with, and a body that carries a message
\* derived from the error e: the error's text, bare or behind the status
\* text, as one line.
MessagesFrom(e) == { e, StatusText(StatusBadGateway) \o ": " \o e }

CarriesError(body, e) == \E m \in MessagesFrom(e) : body \in { <<m>>, <<m \o "\n">> }

\* C33 as stated: when the outbound round trip of a forwarded request fails,
\* the body of the 502 response carries a message derived from the error
\* that occurred.
C33_AsStated ==
    RoundTripFailed => (w.written = <<502>> /\ CarriesError(w.body, fwd.cause))

\* The body of the 502 is the same whatever the error was.
SameBodyForEveryError ==
    RoundTripFailed => (fwd.cause \in RoundTripErrors /\ w.body = <<"Bad Gateway\n">>)

\* A GET whose round trip over the upstream transport failed: 502.
C15_Witness ==
    /\ req.Method = "GET"
    /\ RoundTripFailed
    /\ stats.tripUpstream = 1
    /\ w.written = <<502>>

\* C16: on a successful forward the response to the client has the upstream
\* response's status code and every upstream header with all its values,
\* nothing is sent before the headers are copied, the status goes out with
\* them and the body after it, byte for byte; an error while the body is
\* copied leaves that one status and writes no other.
C16_CopyResponse ==
    (IsForward /\ fwd.resp # NoResponse)
        => /\ pc \in {"CopyResponse", "CopyBody", "done"}
           /\ pc = "CopyResponse" => w.written = <<>> /\ w.body = <<>> /\ w.header = NoHeader
           /\ pc \in {"CopyBody", "done"} =>
                 /\ w.written = <<fwd.resp.StatusCode>>
                 /\ w.sentHeader = fwd.resp.Header
                 /\ w.body = SubSeq(fwd.resp.Body, 1, fwd.copied)
           /\ (pc = "done" /\ ~fwd.err) => w.body = fwd.resp.Body

\* Copying the body of a 404 with two cookies failed after the first byte:
\* the client has the 404, both cookies, one byte, and no second status.
C16_Witness ==
    /\ IsForward
    /\ pc = "done"
    /\ fwd.err
    /\ fwd.resp.StatusCode = 404
    /\ fwd.resp.Header["Set-Cookie"] = <<"a=1", "b=2">>
    /\ w.sentHeader["Set-Cookie"] = <<"a=1", "b=2">>
    /\ w.written = <<404>>
    /\ w.body = <<Byte("r", 1)>>
    /\ Len(fwd.resp.Body) = 2

(***************************************************************************)
(* The states of a CONNECT request, read off the handler and the relay.    *)
(***************************************************************************)

\* The handler is inside the dial: net.DialTimeout or DialViaUpstream.
InDial ==
    pc \in {"DialTimeout", "SetDeadline", "WriteConnect", "ReadResponse", "CheckStatus"}

RelayEnded == g1.pc = "done" /\ g2.pc = "done"

BothClosed == backend.state = "closed" /\ clientClosed

TunnelState ==
    IF ~IsConnect \/ pc = "HandleHttps" THEN "NONE"
    ELSE IF pc = "TunnelFailed" \/ w.written # <<>> THEN "ERROR"
    ELSE IF pc = "EstablishTunnel" THEN "ROUTE_DECIDED"
    ELSE IF InDial THEN "BACKEND_DIALING"
    ELSE IF pc = "Hijack" THEN "BACKEND_READY"
    ELSE IF pc \in {"Reply", "Pipe"} THEN "CLIENT_HIJACKED"
    ELSE IF RelayEnded THEN "CLOSED"
    ELSE "RELAYING"

\* The order of the states, and the states ERROR may be entered from.
TunnelOrder ==
    { <<"NONE", "ROUTE_DECIDED">>,
      <<"ROUTE_DECIDED", "BACKEND_DIALING">>,
      <<"BACKEND_DIALING", "BACKEND_READY">>,
      <<"BACKEND_READY", "CLIENT_HIJACKED">>,
      <<"CLIENT_HIJACKED", "RELAYING">>,
      <<"RELAYING", "CLOSED">> }

BeforeRelaying == {"ROUTE_DECIDED", "BACKEND_DIALING", "BACKEND_READY", "CLIENT_HIJACKED"}

TunnelStep ==
    \/ TunnelState' = TunnelState
    \/ <<TunnelState, TunnelState'>> \in TunnelOrder
    \/ TunnelState' = "ERROR" /\ TunnelState \in BeforeRelaying

\* C18: a CONNECT request moves through ROUTE_DECIDED, BACKEND_DIALING,
\* BACKEND_READY, CLIENT_HIJACKED, RELAYING, CLOSED in that order, one state
\* at a time; ERROR is entered only from a state before RELAYING and is
\* left for no other state; the client connection is hijacked only with an
\* open backend connection and no dial error, and a copy loop runs only
\* after the hijack.
C18_TunnelOrder ==
    /\ [][TunnelStep]_vars
    /\ [](TunnelState \in {"BACKEND_READY", "CLIENT_HIJACKED"}
             => backend.state = "open" /\ err = "nil")
    /\ [](w.hijacked => backend.state # "none" /\ err = "nil")
    /\ [](~RelayOff => w.hijacked /\ pc = "done")

\* A CONNECT through the upstream that went through every state and is CLOSED.
C18_Witness ==
    /\ TunnelState = "CLOSED"
    /\ useUpstream = "yes"
    /\ stats.connects = 1
    /\ w.hijacked
    /\ toClient # <<>>
    /\ BothClosed

\* The writer as the server hands it to the handler, but for its kind.
WriterUntouched ==
    /\ w.written = <<>>
    /\ w.header = NoHeader
    /\ w.sentHeader = NoHeader
    /\ w.body = <<>>

\* C19: once the client connection is hijacked, nothing is ever written
\* through the response writer for that request: no status, no header, no
\* body, whatever fails afterwards; and once a status has been written for a
\* CONNECT request, its connection is not hijacked.
C19_HijackExclusive ==
    /\ []((IsConnect /\ w.hijacked) => WriterUntouched)
    /\ [][w.hijacked => w' = w]_vars
    /\ [][(IsConnect /\ w.written # <<>>) => (~w.hijacked /\ ~w'.hijacked)]_vars

\* A hijacked CONNECT whose relay ended with an error on the client's side
\* and an end of stream on the backend's: the writer is as it was handed over.
C19_Witness ==
    /\ IsConnect
    /\ w.hijacked
    /\ RelayEnded
    /\ g2.end = "error"
    /\ c2p.peer = "reset"
    /\ WriterUntouched

\* The dial of a CONNECT succeeded and the handler has returned.
DialedAndReturned == IsConnect /\ pc = "done" /\ err \notin DialErrors

NothingRelayed == toClient = <<>> /\ toBackend = <<>> /\ RelayOff /\ ~clientClosed

\* C20: with a response writer that is no http.Hijacker the backend
\* connection, already open, is closed and the client receives 500; when
\* the Hijack call fails the backend connection is closed and the client
\* receives 503; in both cases the client connection is not taken over, the
\* 200 reply is not written and no relay is started.
C20_HijackUnavailable ==
    /\ (DialedAndReturned /\ w.kind = "plain")
          => /\ w.written = <<StatusInternalServerError>>
             /\ w.body = <<"Internal Server Error\n">>
             /\ backend.state = "closed"
             /\ ~w.hijacked
             /\ NothingRelayed
    /\ (DialedAndReturned /\ w.kind = "hijackFails")
          => /\ w.written = <<StatusServiceUnavailable>>
             /\ w.body = <<"Service Unavailable\n">>
             /\ err = "hijack failed"
             /\ backend.state = "closed"
             /\ ~w.hijacked
             /\ NothingRelayed

\* The upstream accepted the nested CONNECT, the Hijack call failed: 503, and
\* the connection to the upstream is closed.
C20_Witness ==
    /\ DialedAndReturned
    /\ w.kind = "hijackFails"
    /\ stats.connects = 1
    /\ resp = StatusOK
    /\ backend = [state |-> "closed", peer |-> "upstream", deadline |-> FALSE]
    /\ w.written = <<StatusServiceUnavailable>>

(***************************************************************************)
(* The tunnel path on its own: one configuration, with an upstream and the *)
(* exception '*.x', so that both routes are taken.                         *)
(***************************************************************************)

TunnelInit ==
    /\ cfg = [UpstreamProxy |-> UpstreamAddr, ProxyAuth |-> <<>>, ProxyExceptions |-> << <<"*", ".", "x">> >>]
    /\ ProxyIdle
    /\ MatchIdle

TunnelSpec == TunnelInit /\ [][Next]_vars

\* DialViaUpstream has returned to EstablishTunnel.
UpstreamDialReturned == useUpstream = "yes" /\ pc \in {"TunnelFailed", "Hijack"}

\* The errors of DialViaUpstream behind the TCP dial.
HandshakeErrors ==
    {ErrSetDeadline, ErrSendConnect, ErrBadResponse, ErrRejected, ErrClearDeadline}

\* C21: DialViaUpstream returns an open connection and no error, or an error
\* and no connection: when the dial itself failed there is no connection,
\* and on every failure behind the dial (set deadline, write CONNECT, read
\* response, rejecting status, clear deadline) the connection to the
\* upstream is closed when the function returns, and stays closed.
C21_DialViaUpstream ==
    /\ UpstreamDialReturned
          => \/ pc = "Hijack" /\ err = "nil" /\ backend.state = "open"
                               /\ backend.peer = "upstream"
             \/ pc = "TunnelFailed" /\ err = ErrUpstreamDial /\ backend = NoConn
             \/ pc = "TunnelFailed" /\ err \in HandshakeErrors
                                     /\ backend.state = "closed"
                                     /\ backend.peer = "upstream"
    /\ err \in HandshakeErrors => backend.state = "closed" /\ stats.dialUpstream = 1

\* The upstream accepted the nested CONNECT, clearing the deadline failed:
\* DialViaUpstream returns the error, the connection is closed.
C21_Witness ==
    /\ UpstreamDialReturned
    /\ err = ErrClearDeadline
    /\ resp = StatusOK
    /\ stats.connects = 1
    /\ backend.state = "closed"

\* The nested CONNECT handshake is under way on the upstream connection.
InHandshake == pc \in {"WriteConnect", "ReadResponse", "CheckStatus"}

\* The backend connection is in the hands of the handler behind the dial, or
\* of the relay.
HandedOver == IsConnect /\ (pc \in {"Hijack", "Reply", "Pipe"} \/ w.hijacked)

\* C22: on the upstream connection the deadline is set after the dial and
\* before the CONNECT request is written, is in force while the request is
\* written and the response is read, and is cleared before the connection is
\* returned; a connection dialed directly never carries one: every backend
\* connection handed to the relay is without deadline.
C22_HandshakeDeadline ==
    /\ [](pc = "SetDeadline" => ~backend.deadline /\ stats.connects = 0
                                  /\ backend.state = "open")
    /\ [](InHandshake => backend.deadline /\ backend.peer = "upstream")
    /\ [][stats.connects' # stats.connects => backend.deadline /\ backend'.deadline]_vars
    /\ [][resp' # resp => backend.deadline /\ backend'.deadline]_vars
    /\ [](backend.peer = "target" => ~backend.deadline)
    /\ [](HandedOver => ~backend.deadline)
    /\ [](~RelayOff => ~backend.deadline)

\* A tunnel through the upstream whose relay is running: the nested CONNECT
\* was accepted, the connection carries no deadline.
C22_Witness ==
    /\ IsConnect
    /\ backend = [state |-> "open", peer |-> "upstream", deadline |-> FALSE]
    /\ resp = StatusOK
    /\ stats.connects = 1
    /\ g1.pc = "read"
    /\ g2.pc = "read"

\* A connection is closed in this step.
ClosesConnection ==
    \/ backend.state # "closed" /\ backend'.state = "closed"
    \/ ~clientClosed /\ clientClosed'

\* The step is one of a copy loop of Pipe.
RelayStep == g1' # g1 \/ g2' # g2

\* C23: the relay starts with both connections open; from then on only a
\* step of one of the two copy loops closes the client or the backend
\* connection, a closed connection is not reopened, and when both loops have
\* finished both connections are closed, whichever loop ended first and
\* whether by end of stream or by error.
C23_RelayOwnsConnections ==
    /\ [][(RelayOff /\ ~RelayOff') =>
             /\ backend.state = "open" /\ ~clientClosed
             /\ backend'.state = "open" /\ ~clientClosed']_vars
    /\ [][(~RelayOff /\ ClosesConnection) => RelayStep]_vars
    /\ [][(~RelayOff /\ ~RelayOff') =>
             /\ (backend.state = "closed" => backend'.state = "closed")
             /\ (clientClosed => clientClosed')]_vars
    /\ [](RelayEnded => BothClosed)

\* Goroutine 1 ended first, on an error (the backend reset the connection);
\* goroutine 2 then stopped on the closed connection: both are closed.
C23_Witness ==
    /\ RelayEnded
    /\ g1.end = "error"
    /\ b2p.peer = "reset"
    /\ g2.end = "error"
    /\ c2p.peer = "open"
    /\ BothClosed

(***************************************************************************)
(* The proxy with and without a configured upstream.                       *)
(***************************************************************************)
UpstreamInit ==
    /\ cfg \in [UpstreamProxy : {<<>>, UpstreamAddr}, ProxyAuth : {<<>>},
               ProxyExceptions : {<< <<"*", ".", "x">> >>}]
    /\ ProxyIdle
    /\ MatchIdle

UpstreamSpec == UpstreamInit /\ [][Next]_vars

\* C14 as stated: when the configured upstream proxy address is empty, a
\* request whose destination matches no exception pattern is sent directly to
\* its destination: on the forward path its round trip goes to the
\* destination and not to a proxy, on the CONNECT path the target is dialed.
C14_AsStated ==
    (cfg.UpstreamProxy = <<>> /\ ~ReqExcepted /\ pc = "done")
        => /\ IsForward => stats.tripDirect = 1 /\ stats.tripUpstream = 0
           /\ IsConnect => stats.dialTarget = 1

(***************************************************************************)
(* The relay under fair scheduling: a goroutine that can take a step       *)
(* takes it.  The peers are under no obligation.                           *)
(***************************************************************************)
G1Step == G1Read \/ G1Write \/ G1CloseB \/ G1CloseA

G2Step == G2Read \/ G2Write \/ G2CloseB \/ G2CloseA

\* One configuration is enough here: the relay does not read the exceptions
\* beyond the choice between the target and the upstream, and '*.x' gives both.
LiveInit ==
    /\ cfg = [UpstreamProxy |-> UpstreamAddr, ProxyAuth |-> <<>>, ProxyExceptions |-> << <<"*", ".", "x">> >>]
    /\ ProxyIdle
    /\ MatchIdle

LiveSpec == LiveInit /\ [][Next]_vars /\ WF_vars(G1Step) /\ WF_vars(G2Step)

\* C5: a copy loop that has finished (end of stream or error) has closed both
\* the client and the backend connection when its goroutine is done, and once
\* either loop has finished the other loop terminates too: both goroutines
\* end with both connections closed.
C5_PipeTerminates ==
    /\ []((g1.pc = "done" \/ g2.pc = "done") => BothClosed)
    /\ (g1.end # "none" \/ g2.end # "none")
          ~> (g1.pc = "done" /\ g2.pc = "done" /\ BothClosed)

\* The backend ended its stream; goroutine 1 closed both connections and
\* goroutine 2, whose client never ended, stopped on the closed connection.
C5_Witness ==
    /\ g1.pc = "done"
    /\ g2.pc = "done"
    /\ g1.end = "eof"
    /\ g2.end = "error"
    /\ c2p.peer = "open"
    /\ BothClosed

\* The k-th byte of the backend is on its way to the client: sent, and
\* waiting on the connection or in goroutine 1's buffer.
InFlightToClient(k) ==
    \/ \E i \in 1..Len(b2p.queue) : b2p.queue[i] = Byte("b", k)
    \/ \E i \in 1..Len(g1.buf) : g1.buf[i] = Byte("b", k)

DeliveredToClient(k) == \E i \in 1..Len(toClient) : toClient[i] = Byte("b", k)

\* The client finished sending and goroutine 2 read its EOF, while the
\* backend is still answering: its stream is open and goroutine 1 is copying.
ClientDirectionEnded ==
    /\ g2.end = "eof"
    /\ c2p.peer = "eof"
    /\ b2p.peer = "open"
    /\ g1.end = "none"

CutOff(k) ==
    /\ g1.pc = "done" /\ g2.pc = "done"
    /\ b2p.sent >= k
    /\ ~DeliveredToClient(k)

MaxRequests == 3

\* requestTransports{direct: NewDirectTransport(cfg), upstream:
\* NewUpstreamTransport(cfg)}: two constructor calls, two new transports.
NewRequestTransports == [direct |-> instance.built + 1, upstream |-> instance.built + 2]

Started == instance.transports # NoTransports

CanEnter == pc = "idle" /\ instance.entry = "none" /\ instance.served < MaxRequests

\* Start, lines 35-38: the transports of the instance are constructed, once.
Start ==
    /\ ~Started
    /\ instance.entry = "none"
    /\ instance' = [instance EXCEPT !.transports = NewRequestTransports, !.built = @ + 2]
    /\ UNCHANGED <<cfg, handlerVars, connVars, streamVars, pipeVars, matchVars>>

\* Start's handler, lines 39-41: the server hands it a request, and it calls
\* handleRequestWithTransports with the transports Start constructed.
handler(m, h) ==
    /\ Started
    /\ CanEnter
    /\ instance' = [instance EXCEPT !.entry = "handler", !.inUse = instance.transports]
    /\ req' = [Method |-> m, Host |-> h]
    /\ pc' = DispatchPath(m)
    /\ UNCHANGED <<cfg, useUpstream, transport, w, fwd, err, resp, connVars, streamVars,
                   pipeVars, matchVars>>

\* HandleRequest, lines 54-60: constructs both transports, then calls
\* handleRequestWithTransports with them.
HandleRequest(m, h) ==
    /\ CanEnter
    /\ instance' = [instance EXCEPT !.entry = "HandleRequest", !.inUse = NewRequestTransports,
                                    !.built = @ + 2]
    /\ req' = [Method |-> m, Host |-> h]
    /\ pc' = DispatchPath(m)
    /\ UNCHANGED <<cfg, useUpstream, transport, w, fwd, err, resp, connVars, streamVars,
                   pipeVars, matchVars>>

\* HandleHttp, lines 76-82: constructs both transports, then calls
\* handleHttpWithTransports with them, whatever the method.
HandleHttp(m, h) ==
    /\ CanEnter
    /\ instance' = [instance EXCEPT !.entry = "HandleHttp", !.inUse = NewRequestTransports,
                                    !.built = @ + 2]
    /\ req' = [Method |-> m, Host |-> h]
    /\ pc' = "handleHttp"
    /\ UNCHANGED <<cfg, useUpstream, transport, w, fwd, err, resp, connVars, streamVars,
                   pipeVars, matchVars>>

\* The entry point returns; the next request finds the handler idle.
Return ==
    /\ instance.entry # "none"
    /\ pc \in {"HandleHttps", "ProxyRequest"}
    /\ instance' = [instance EXCEPT !.entry = "none", !.inUse = NoTransports, !.served = @ + 1]
    /\ req' = NoRequest
    /\ pc' = "idle"
    /\ transport' = "none"
    /\ UNCHANGED <<cfg, useUpstream, w, fwd, err, resp, connVars, streamVars, pipeVars,
                   matchVars>>

EntryInit ==
    /\ cfg = [UpstreamProxy |-> UpstreamAddr, ProxyAuth |-> <<>>, ProxyExceptions |-> << <<"*", ".", "x">> >>]
    /\ ProxyIdle
    /\ MatchIdle

EntryNext ==
    \/ Start
    \/ \E m \in Methods, h \in ReqHosts : handler(m, h)
    \/ \E m \in Methods, h \in ReqHosts : HandleRequest(m, h)
    \/ \E m \in Methods, h \in ReqHosts : HandleHttp(m, h)
    \/ handleHttpWithTransports
    \/ Return

EntrySpec == EntryInit /\ [][EntryNext]_vars

\* The transport handleHttpWithTransports chose for the round trip.
RoundTripper ==
    IF transport = "direct" THEN instance.inUse.direct ELSE instance.inUse.upstream

\* C17 as stated: no transport is constructed while a request is being
\* handled: whichever entry point handles a request, the two transports of
\* the process are the only ones ever constructed, the request is served
\* with them, and the transport chosen for a round trip is one of them.
C17_AsStated ==
    instance.entry # "none"
        => /\ instance.built = 2
           /\ instance.inUse = instance.transports
           /\ transport # "none" => RoundTripper \in {1, 2}

\* The part of C17 that holds: a request that arrives through Start's
\* handler is served with the transports Start constructed.
StartSharesTransports ==
    instance.entry = "handler"
        => /\ Started
           /\ instance.inUse = instance.transports

(***************************************************************************)
(* The handler under fair scheduling of its own steps only: the goroutine  *)
(* that runs the handler is scheduled, each of its blocking calls returns  *)
(* (dial timeout, handshake deadline, client timeout, server write         *)
(* timeout), and nothing is assumed about the peers or the copy loops.     *)
(***************************************************************************)

\* The handler's step at HandleHttps (line 72) and handleHttpWithTransports
\* (lines 85-90), stated on the position alone: the step is taken whatever
\* the exception match gives, and within Next it is one of those two.
RouteStep ==
    /\ pc \in {"HandleHttps", "handleHttp"}
    /\ pc' = (IF pc = "HandleHttps" THEN "EstablishTunnel" ELSE "ProxyRequest")
    /\ useUpstream' \in {"unset", "yes", "no"}
    /\ transport' \in {"none", "direct", "upstream"}
    /\ UNCHANGED <<cfg, req, w, fwd, err, resp, connVars, streamVars, pipeVars, matchVars,
                   instance>>

HandlerStep ==
    \/ ProxyRequest
    \/ CopyResponse
    \/ CopyBody
    \/ EstablishTunnel
    \/ DialDirect
    \/ DialUpstream
    \/ SetDeadline
    \/ WriteConnect
    \/ ReadResponse
    \/ CheckStatus
    \/ TunnelFailed
    \/ Hijack
    \/ Reply
    \/ Pipe

HandlerSpec == TunnelInit /\ [][Next]_vars /\ WF_vars(RouteStep) /\ WF_vars(HandlerStep)

Handling == pc \notin {"idle", "done"}

\* C24: every invocation of the request handler returns, whatever the peers
\* and the copy loops do or fail to do; the CONNECT handler is never running
\* while the copy loops run, and has started them when it returns from a
\* hijacked connection: it does not wait for the tunnel to end.
C24_HandlerReturns ==
    /\ Handling ~> (pc = "done")
    /\ [](Handling => RelayOff)
    /\ []((IsConnect /\ pc = "done" /\ w.hijacked) => ~RelayOff)

\* The CONNECT handler has returned; both copy loops wait for bytes on an
\* open tunnel on which nothing has been sent yet.
C24_Witness ==
    /\ IsConnect
    /\ pc = "done"
    /\ g1.pc = "read"
    /\ g2.pc = "read"
    /\ backend.state = "open"
    /\ ~clientClosed
    /\ c2p.sent = 0
    /\ b2p.sent = 0

(***************************************************************************)
(* The bytes in front of the relay: what the two buffered readers took     *)
(* before Pipe started.                                                    *)
(***************************************************************************)

\* The relay has started (Pipe was called); it may have ended since.
RelayStarted == ~RelayOff

\* C34 as stated: in a tunnel through the upstream, every byte the upstream
\* sent behind the head of its 200 response reaches the client through the
\* relay, also when it arrived together with the head: once the relay has
\* started the reader that parsed the response keeps no tunnel byte, and what
\* the client receives behind the reply is the backend's stream from its
\* first byte on.
C34_AsStated ==
    (IsConnect /\ useUpstream = "yes" /\ RelayStarted)
        => /\ b2p.held = <<>>
           /\ IsPrefix(RelayedToClient, Stream("b", b2p.sent))

\* With nothing in the response reader's buffer, and in a direct tunnel, the
\* client receives the backend's stream from its first byte on.
BackendStreamIntact ==
    (IsConnect /\ RelayStarted /\ b2p.held = <<>>)
        => IsPrefix(RelayedToClient, Stream("b", b2p.sent))

\* C35 as stated: the bytes the client sent behind the head of its CONNECT
\* request, which the server had read into its buffer when the connection
\* was hijacked, are forwarded to the backend: once the relay has started no
\* client byte is left in the server's reader, and what the backend receives
\* is the client's stream from its first byte on.
C35_AsStated ==
    (IsConnect /\ RelayStarted)
        => /\ c2p.held = <<>>
           /\ IsPrefix(toBackend, Stream("c", c2p.sent))

\* With nothing in the server's buffer at the hijack, the backend receives
\* the client's stream from its first byte on.
ClientStreamIntact ==
    (IsConnect /\ RelayStarted /\ c2p.held = <<>>)
        => IsPrefix(toBackend, Stream("c", c2p.sent))

(***************************************************************************)
(* The transport constructors on their own: called for configurations with *)
(* auth schemes of every kind ("ntlm" in several cases, near misses, other *)
(* schemes, none) and upstream addresses that parse and that do not.       *)
(***************************************************************************)
AuthSchemes ==
    { <<>>, Ntlm, <<"N", "T", "L", "M">>, <<"N", "t", "l", "m">>, <<"n", "T", "l", "M">>,
      <<"n", "t", "l">>, <<"n", "t", "l", "m", "2">>, <<" ", "n", "t", "l", "m">>,
      <<"b", "a", "s", "i", "c">>, <<"B", "a", "s", "i", "c">> }

\* "up:8" and "" parse (the latter to a URL without host); a port that is
\* not a number and a space in the host do not.
UpstreamAddrs == { UpstreamAddr, <<>>, <<"u", "p", ":", "p">>, <<"u", " ", "p">> }

Constructors == { "NewDirectTransport", "NewUpstreamTransport" }

TransportInit ==
    /\ cfg \in [UpstreamProxy : UpstreamAddrs, ProxyAuth : AuthSchemes, ProxyExceptions : {<<>>}]
    /\ ProxyIdle
    /\ argHost = <<>> /\ argPatterns = <<>> /\ retMatched = <<>>
    /\ \E fn \in Constructors :
          call = [fn |-> fn, arg |-> <<>>, ret |-> <<>>, done |-> FALSE, log |-> <<>>]

\* The call NewDirectTransport(cfg).
CallNewDirectTransport ==
    /\ call.fn = "NewDirectTransport"
    /\ ~call.done
    /\ call' = [call EXCEPT !.ret = NewDirectTransport(cfg), !.done = TRUE]
    /\ UNCHANGED <<cfg, handlerVars, connVars, streamVars, pipeVars, argHost, argPatterns,
                   retMatched, instance>>

\* The call NewUpstreamTransport(cfg).
CallNewUpstreamTransport ==
    /\ call.fn = "NewUpstreamTransport"
    /\ ~call.done
    /\ call' = [call EXCEPT !.ret = NewUpstreamTransport(cfg), !.done = TRUE,
                            !.log = call.log \o UpstreamTransportLog(cfg)]
    /\ UNCHANGED <<cfg, handlerVars, connVars, streamVars, pipeVars, argHost, argPatterns,
                   retMatched, instance>>

TransportNext == CallNewDirectTransport \/ CallNewUpstreamTransport

TransportSpec == TransportInit /\ [][TransportNext]_vars

Constructed(fn) == call.fn = fn /\ call.done

\* "ntlm" in any mix of upper and lower case, letter by letter.
IsNtlmAnyCase(s) ==
    /\ Len(s) = 4
    /\ s[1] \in {"n", "N"} /\ s[2] \in {"t", "T"} /\ s[3] \in {"l", "L"} /\ s[4] \in {"m", "M"}

UpstreamParsed == ~UrlParse(Http \o cfg.UpstreamProxy).err

\* C30: the upstream transport is wrapped in the NTLM negotiator, and has
\* HTTP/2 negotiation disabled, exactly when the auth scheme is "ntlm" in any
\* case and the upstream address parsed; for every other scheme it is a plain
\* transport; the direct transport is never wrapped and never has HTTP/2
\* disabled.
C30_NtlmWrapping ==
    /\ Constructed("NewUpstreamTransport") =>
          /\ call.ret.negotiator <=> (IsNtlmAnyCase(cfg.ProxyAuth) /\ UpstreamParsed)
          /\ (call.ret.TLSNextProto = "empty") <=> call.ret.negotiator
          /\ call.ret.TLSNextProto \in {"nil", "empty"}
          /\ call.ret.negotiator => call.ret.proxy
    /\ Constructed("NewDirectTransport") =>
          /\ ~call.ret.negotiator
          /\ call.ret.TLSNextProto = "nil"
          /\ ~call.ret.proxy

\* C31: when the upstream address does not parse as a URL, the constructor of
\* the upstream transport returns a transport all the same, the direct one
\* (no proxy URL, no NTLM wrapper and HTTP/2 left alone whatever the auth
\* scheme), and logs one error; when the address parses it logs nothing.
C31_FailsSoft ==
    Constructed("NewUpstreamTransport") =>
        IF UpstreamParsed
        THEN call.log = <<>>
        ELSE /\ call.log = <<"Error">>
             /\ call.ret = NewDirectTransport(cfg)
             /\ ~call.ret.proxy /\ call.ret.proxyHost = <<>>
             /\ ~call.ret.negotiator /\ call.ret.TLSNextProto = "nil"

\* The address "up:p" (a port that is no number) with the scheme "ntlm": a
\* direct transport without wrapper, and an error in the log.
C31_Witness ==
    /\ Constructed("NewUpstreamTransport")
    /\ cfg.UpstreamProxy = <<"u", "p", ":", "p">>
    /\ cfg.ProxyAuth = Ntlm
    /\ call.log = <<"Error">>
    /\ ~call.ret.proxy
    /\ ~call.ret.negotiator

\* The scheme "NTLM" with the upstream up:8: the transport goes through the
\* upstream, is wrapped and has HTTP/2 disabled.
C30_Witness ==
    /\ Constructed("NewUpstreamTransport")
    /\ cfg.ProxyAuth = <<"N", "T", "L", "M">>
    /\ cfg.UpstreamProxy = UpstreamAddr
    /\ call.ret.negotiator
    /\ call.ret.TLSNextProto = "empty"
    /\ call.ret.proxy

(***************************************************************************)
(* CloneRequest on its own: called on inbound requests in proxy form (an   *)
(* absolute URL) and in origin form (a path only), whose Host agrees with  *)
(* the URL's host or does not.                                             *)
(***************************************************************************)
UrlSchemes == { <<>>, <<"h", "t", "t", "p">>, <<"h", "t", "t", "p", "s">>, <<"f", "t", "p">> }

UrlHosts == { <<>>, <<"a">>, <<"b", ":", "8">> }

UrlPaths == { <<>>, <<"/">>, <<"/", "x">> }

RequestHeaders == { <<>>, << <<"Accept", "*">> >>, << <<"Accept", "*">>, <<"Cookie", "c">> >> }

RequestBodies == { <<>>, <<"1", "2">> }

\* The request-URI as the server read it from the request line.
RequestURIOf(url) ==
    IF url.Scheme = <<>> THEN (IF url.Path = <<>> THEN <<"/">> ELSE url.Path)
    ELSE url.Scheme \o <<":", "/", "/">> \o url.Host \o url.Path

InboundRequests ==
    { [Method |-> m, RequestURI |-> RequestURIOf(u), URL |-> u, Host |-> h, Header |-> hd,
       Body |-> b] :
          m \in {"GET", "POST"}, u \in [Scheme : UrlSchemes, Host : UrlHosts, Path : UrlPaths],
          h \in UrlHosts, hd \in RequestHeaders, b \in RequestBodies }

CloneInit ==
    /\ cfg = [UpstreamProxy |-> UpstreamAddr, ProxyAuth |-> <<>>, ProxyExceptions |-> <<>>]
    /\ ProxyIdle
    /\ argHost = <<>> /\ argPatterns = <<>> /\ retMatched = <<>>
    /\ \E r \in InboundRequests :
          call = [fn |-> "CloneRequest", arg |-> r, ret |-> <<>>, done |-> FALSE]

\* The call CloneRequest(req) of ProxyRequest line 99.
CallCloneRequest ==
    /\ call.fn = "CloneRequest"
    /\ ~call.done
    /\ call' = [call EXCEPT !.ret = CloneRequest(call.arg), !.done = TRUE]
    /\ UNCHANGED <<cfg, handlerVars, connVars, streamVars, pipeVars, argHost, argPatterns,
                   retMatched, instance>>

CloneNext == CallCloneRequest

CloneSpec == CloneInit /\ [][CloneNext]_vars

Cloned == call.fn = "CloneRequest" /\ call.done

\* C32: the outbound copy has an empty request-URI, the URL scheme "http"
\* when the inbound URL has none and the inbound scheme otherwise, and the
\* inbound request's Host as URL host; method, path, headers and body are
\* the inbound request's.
C32_CloneRequest ==
    Cloned =>
        /\ call.ret.RequestURI = <<>>
        /\ call.arg.URL.Scheme = <<>> => call.ret.URL.Scheme = <<"h", "t", "t", "p">>
        /\ call.arg.URL.Scheme # <<>> => call.ret.URL.Scheme = call.arg.URL.Scheme
        /\ call.ret.URL.Host = call.arg.Host
        /\ call.ret.Method = call.arg.Method
        /\ call.ret.URL.Path = call.arg.URL.Path
        /\ call.ret.Header = call.arg.Header
        /\ call.ret.Body = call.arg.Body

\* An origin-form POST for /x with Host b:8: the copy is for http://b:8/x,
\* with the headers and the body of the inbound request.
C32_Witness ==
    /\ Cloned
    /\ call.arg.Method = "POST"
    /\ call.arg.URL = [Scheme |-> <<>>, Host |-> <<>>, Path |-> <<"/", "x">>]
    /\ call.arg.Host = <<"b", ":", "8">>
    /\ call.arg.RequestURI = <<"/", "x">>
    /\ call.arg.Body # <<>>
    /\ call.ret.URL = [Scheme |-> <<"h", "t", "t", "p">>, Host |-> <<"b", ":", "8">>,
                       Path |-> <<"/", "x">>]
    /\ call.ret.RequestURI = <<>>

(***************************************************************************)
(* The proxy with and without the auth scheme "ntlm": the upstream up:8    *)
(* and the exception '*.x', so that both routes are taken.                 *)
(***************************************************************************)
AuthInit ==
    /\ cfg \in [UpstreamProxy : {UpstreamAddr}, ProxyAuth : {<<>>, Ntlm},
                ProxyExceptions : {<< <<"*", ".", "x">> >>}]
    /\ ProxyIdle
    /\ MatchIdle

AuthSpec == AuthInit /\ [][Next]_vars

\* The upstream refused the nested CONNECT for want of authentication and
\* the handler has finished.
Refused407 == IsConnect /\ useUpstream = "yes" /\ upReply = 407 /\ resp = 407 /\ pc = "done"

\* C36: the auth scheme has no effect on the CONNECT path: with the scheme
\* "ntlm" as without one, at most one nested CONNECT is written to the
\* upstream, it names the target in the request line and in the Host header
\* and carries no other header (no credentials, no negotiation message), no
\* second request follows a 407, and a 407 ends with 503 to the client, no
\* hijack and no relay.
C36_AuthIgnored ==
    IsConnect =>
        /\ Len(stats.nested) = stats.connects
        /\ stats.connects <= 1
        /\ \A i \in 1..Len(stats.nested) :
              stats.nested[i] = [Method |-> "CONNECT", RequestURI |-> req.Host,
                                 Header |-> << <<"Host", req.Host>> >>]
        /\ Refused407 =>
              /\ stats.connects = 1
              /\ stats.dialUpstream = 1
              /\ w.written = <<503>>
              /\ ~w.hijacked
              /\ RelayOff
              /\ backend.state = "closed"

\* With the scheme "ntlm", the upstream answered the one nested CONNECT with
\* 407 and the client got 503.
C36_Witness ==
    /\ cfg.ProxyAuth = Ntlm
    /\ Refused407
    /\ Len(stats.nested) = 1
    /\ stats.nested[1].Header = << <<"Host", req.Host>> >>
    /\ w.written = <<503>>

====
